---- MODULE Spec2Model ----
(***************************************************************************)
(* State-machine model of the map board of buying-house-note: the App     *)
(* component (property list, selection, view switch), the MapBoard        *)
(* component (mode controller, life pins, yarn connections, freehand      *)
(* paths, stickers, undo, delete confirmation) and the local-storage      *)
(* persistence of the five collections.                                   *)
(*                                                                         *)
(* One action models one event handler together with the React effects    *)
(* that run before the next event is handled (the "settled" state).       *)
(***************************************************************************)
EXTENDS Integers, Sequences, FiniteSets, TLC

(***************************************************************************)
(* Bounds of the model.                                                    *)
(***************************************************************************)
\* Date.now() takes the values 1..MaxClock; every created entity takes its
\* id (and timestamp) from the clock.
MaxClock == 5
\* The clock values used when the annotation tools are explored alone.
MaxAnnotationClock == 4
\* Data conversions (FileReader) of recorded stickers that may be in flight.
MaxInFlight == 1
\* Paths and stickers (including stickers being converted) on the board,
\* when the annotation tools are explored alone and together with the rest.
MaxAnnotations == 2
MaxBoardAnnotations == 1
\* Properties, and life pins, on the board when all tools are explored
\* together (alone, the clock bounds them), and the clock values then used.
MaxBoardNodes == 1
MaxBoardClock == 3
\* The points the freehand recorder captures in a stroke, and the clock
\* values used when the recorder is explored point by point.
MaxPoints == 2
MaxDrawClock == 2
\* Properties on the board when their ratings are explored.
MaxRatedProperties == 2
\* The longest pixel distance between the ends of a connection.
MaxPixelDist == 5000
\* The images in the scrapbook of a property.
MaxImages == 2
\* The bits of the significand of a number (a binary64 number has 53).
MantissaBits == 8
\* The startRecording calls made on a recorder hook.
MaxRequests == 2
MaxTimers == 2

(***************************************************************************)
(* Values.                                                                 *)
(***************************************************************************)
NoId == 0
Modes == {"browse", "add_pin", "pencil", "eraser", "add_life_pin", "connect-line"}
PENCIL_COLORS == {"#50B748", "#F5A623", "#E65555"}
NoNode == [id |-> NoId, type |-> "none"]

KeyProperties == "hb_notes_properties"
KeyPaths == "hb_notes_paths"
KeyStickers == "hb_notes_stickers"
KeyLifePins == "hb_notes_life_pins"
KeyYarns == "hb_notes_yarns"
Keys == {KeyProperties, KeyPaths, KeyStickers, KeyLifePins, KeyYarns}

(***************************************************************************)
(* Local storage.  A key is absent (getItem returns null) or holds a      *)
(* string: the empty string, the JSON text of a list, or a text that is   *)
(* not JSON.                                                               *)
(***************************************************************************)
Missing == [tag |-> "missing", val |-> <<>>]
EmptyText == [tag |-> "empty", val |-> <<>>]
Garbage == [tag |-> "garbage", val |-> <<>>]

\* JSON.stringify(list): the JSON text of the list.
JSONstringify(v) == [tag |-> "json", val |-> v]

\* JSON.parse(text): the value, or a SyntaxError.
JSONparse(text) ==
  IF text.tag = "json" THEN [threw |-> FALSE, val |-> text.val]
  ELSE [threw |-> TRUE, val |-> <<>>]

\* The lazy state initialisers:
\*   try { const saved = localStorage.getItem(key);
\*         return saved ? JSON.parse(saved) : []; } catch (e) { return []; }
\* The result is the initial collection and whether an exception escaped.
LoadNoCatch(raw) ==
  IF raw.tag \in {"missing", "empty"} THEN [val |-> <<>>, escaped |-> FALSE]
  ELSE [val |-> JSONparse(raw).val, escaped |-> JSONparse(raw).threw]

LoadCollection(raw) ==
  IF raw.tag \in {"missing", "empty"} THEN [val |-> <<>>, escaped |-> FALSE]
  ELSE IF JSONparse(raw).threw THEN [val |-> <<>>, escaped |-> FALSE]
  ELSE [val |-> JSONparse(raw).val, escaped |-> FALSE]

(***************************************************************************)
(* List helpers (Array.prototype.filter / some / find / slice).            *)
(***************************************************************************)
Ids(list) == {list[i].id : i \in 1..Len(list)}
Last(list) == list[Len(list)]
ButLast(list) == SubSeq(list, 1, Len(list) - 1)

VARIABLES
  \* App
  view,                \* viewMode: "map" (MapBoard mounted) or "list"
  properties,          \* Property[]
  selectedPropertyId,  \* string | null
  \* MapBoard
  mode,                \* MapBoardMode
  showColorPicker,
  showVideoModal,
  showPinNameModal,    \* together with tempLifePinCoords
  newPinCoords,        \* TRUE when a new-pin preview is placed
  connectStartNode,    \* {id, type} | null
  deleteTarget,        \* {id, type} | null
  paths,               \* MapPath[]
  stickers,            \* MediaNote[]
  lifePins,            \* LifePin[]
  yarnConnections,     \* YarnConnection[]
  pencilColor,
  popupPin,            \* the life pin whose Leaflet popup is open, or NoId
  hoveredPathId,       \* the path under the pointer in eraser mode, or NoId
  \* FreehandDrawController
  isDrawing,
  pointsRef,           \* the points captured since pointer-down
  pressed,             \* the pointer is down (button held, finger on the screen)
  \* YarnConnectionItem
  geometry,            \* the inputs and results of the last updateGeometry
  \* PropertyDetailView (scrapbook)
  images,              \* the TransformableImage components and their media
  \* ComparisonView
  comparison,          \* selection, analysis text, loading flag, service call
  \* PropertyList
  propertyList,        \* the active category tab, the category of each property
  \* PropertyMarker
  marker,              \* per property: the drag flag and its pending timeouts
  \* useMediaRecorder
  recorder,            \* the hook's state cells, refs, requests and devices
  \* Environment
  ls,                  \* localStorage: key -> stored value
  now,                 \* Date.now()
  conversions,         \* sticker data conversions in flight (FileReader)
  \* Observations of the last step
  last,                \* the handler that ran last and its argument
  alertMsg,            \* the window.alert raised by the last step, or "none"
  uncaught,            \* an exception propagated out of the last step
  rejected,            \* the keys whose write the browser rejected in the last step
  crashed              \* the React tree was torn down by an uncaught error

appVars == <<view, properties, selectedPropertyId>>
uiVars == <<mode, showColorPicker, showVideoModal, showPinNameModal,
            newPinCoords, connectStartNode, deleteTarget, pencilColor, popupPin>>
toolVars == <<hoveredPathId, isDrawing, pointsRef, pressed>>
viewVars == <<geometry, images>>
sideVars == <<comparison, propertyList, marker, recorder>>
localVars == <<toolVars, viewVars, sideVars>>
dataVars == <<paths, stickers, lifePins, yarnConnections>>
envVars == <<ls, now, conversions>>
obsVars == <<last, alertMsg, uncaught, rejected, crashed>>
vars == <<appVars, uiVars, localVars, dataVars, envVars, obsVars>>

(***************************************************************************)
(* Guards of the user interface.                                           *)
(***************************************************************************)
\* MapBoard is rendered only while viewMode = 'map' (App render).
Mounted == view = "map" /\ ~crashed

\* MemoDrawer is rendered over the map while a property is selected; its
\* backdrop covers the board.
DrawerOpen == Mounted /\ selectedPropertyId \in Ids(properties)

\* No full-screen overlay (ConfirmationModal, PinNameModal,
\* VideoRecorderModal, MemoDrawer backdrop) intercepts the pointer.
BoardFree ==
  /\ Mounted
  /\ deleteTarget = NoNode
  /\ ~showPinNameModal
  /\ ~showVideoModal
  /\ ~DrawerOpen

(***************************************************************************)
(* localStorage.setItem(key, JSON.stringify(value)).  The keys in fails   *)
(* are those whose write the browser rejects with a QuotaExceededError in *)
(* this step.                                                              *)
(***************************************************************************)
WriteWrongKey(store, key, value, fails) ==
  IF key \in fails THEN store
  ELSE [store EXCEPT ![KeyPaths] = JSONstringify(value)]

SetItem(store, key, value, fails) ==
  IF key \in fails THEN store
  ELSE [store EXCEPT ![key] = JSONstringify(value)]

(***************************************************************************)
(* Effects of MapBoard.                                                    *)
(***************************************************************************)
\* The zombie-connection cleanup effect, run when properties changes.
CleanupNone(yarns, props) == yarns

ZombieCleanup(yarns, props) ==
  SelectSeq(yarns, LAMBDA c : \E i \in 1..Len(props) : props[i].id = c.propertyId)

\* The mode-change effect.
PickerAfterModeKeep(m, picker) == picker
StartAfterModeKeep(m, start) == start

PickerAfterMode(m, picker) == IF m # "pencil" THEN FALSE ELSE picker
StartAfterMode(m, start) == IF m # "connect-line" THEN NoNode ELSE start

(***************************************************************************)
(* Mounting MapBoard: the lazy initialisers read the four collections,    *)
(* then the mount-time effects run (cleanup, persistence of life pins and *)
(* yarn connections).                                                      *)
(***************************************************************************)
MountBoard(store, props, fails) ==
  LET lpaths == LoadCollection(store[KeyPaths])
      lstickers == LoadCollection(store[KeyStickers])
      lpins == LoadCollection(store[KeyLifePins])
      lyarns == LoadCollection(store[KeyYarns])
      escaped == lpaths.escaped \/ lstickers.escaped \/ lpins.escaped \/ lyarns.escaped
      cleaned == ZombieCleanup(lyarns.val, props)
      store1 == SetItem(store, KeyLifePins, lpins.val, fails)
      store2 == SetItem(store1, KeyYarns, cleaned, fails)
      threw == escaped \/ KeyLifePins \in fails \/ KeyYarns \in fails
      rej == IF escaped THEN {} ELSE fails \cap {KeyLifePins, KeyYarns}
  IN [paths |-> IF threw THEN <<>> ELSE lpaths.val,
      stickers |-> IF threw THEN <<>> ELSE lstickers.val,
      lifePins |-> IF threw THEN <<>> ELSE lpins.val,
      yarnConnections |-> IF threw THEN <<>> ELSE cleaned,
      ls |-> IF escaped THEN store ELSE store2,
      threw |-> threw,
      rejected |-> rej]

\* App's properties persistence effect: the write is wrapped in try/catch
\* and a quota failure raises a blocking alert.
SavePropertiesUnguarded(store, props, fails) ==
  [ls |-> SetItem(store, KeyProperties, props, fails),
   alert |-> "none",
   threw |-> KeyProperties \in fails,
   rejected |-> fails \cap {KeyProperties}]

SaveProperties(store, props, fails) ==
  [ls |-> SetItem(store, KeyProperties, props, fails),
   alert |-> IF KeyProperties \in fails THEN "quota" ELSE "none",
   threw |-> FALSE,
   rejected |-> fails \cap {KeyProperties}]

(***************************************************************************)
(* Observations.                                                           *)
(***************************************************************************)
NoOp == [op |-> "mount", id |-> NoId, type |-> "none", delta |-> 0, reset |-> {}]

\* The pending selections of the user interface that a step resets: the
\* connection start node was set and is null afterwards, the colour picker
\* was open and is closed afterwards.
ResetInStep ==
  (IF connectStartNode # NoNode /\ connectStartNode' = NoNode THEN {"start"} ELSE {})
    \cup (IF showColorPicker /\ ~showColorPicker' THEN {"picker"} ELSE {})

\* Records the handler that ran, its argument, by how many elements the
\* list of yarn connections grew (negative: shrank) in the step, and the
\* pending selections the step reset.
Observe(op, id, type, alert, threw, rej) ==
  /\ last' = [op |-> op, id |-> id, type |-> type,
              delta |-> Len(yarnConnections') - Len(yarnConnections),
              reset |-> ResetInStep]
  /\ alertMsg' = alert
  /\ uncaught' = threw
  /\ rejected' = rej

\* No YarnConnectionItem has run updateGeometry yet: no curve, no label.
NoGeometry ==
  [startPx |-> <<0, 0>>, endPx |-> <<0, 0>>, d |-> 0, ran |-> FALSE,
   controlPx |-> <<0, 0>>,
   distText |-> [shown |-> 0, decimals |-> 0, suffix |-> ""]]

\* The scrapbook images of the open property.  A TransformableImage starts
\* unselected, not hovered and idle; its element shows media.rotation || 0.
Images == 1..MaxImages

MountedImage(rotation) ==
  [isSelected |-> FALSE, isHovered |-> FALSE, interactionMode |-> "IDLE",
   startRef |-> [rotation |-> 0, startAngle |-> 0], currentAngle |-> 0,
   transform |-> rotation, rotation |-> rotation]

ImagesInitial == [i \in Images |-> MountedImage(0)]

\* The detail view unmounts: the component state is gone, the media stay.
Unmounted(imgs) == [i \in Images |-> MountedImage(imgs[i].rotation)]

\* ComparisonView's useState cells, and the call of the analysis service
\* made for it: whether a request is in flight and how many were issued.
ComparisonInitial ==
  [selectedIds |-> {}, isComparing |-> FALSE, analysis |-> "", loading |-> FALSE,
   pending |-> FALSE, requests |-> 0]

\* PropertyList starts on the tab of all properties; a property has no
\* category until it is moved to one.
AllCategories == "all"
NoCategory == "undefined"
ListInitial ==
  [activeCategory |-> AllCategories, category |-> [id \in 1..MaxClock |-> NoCategory]]

\* A PropertyMarker: isDraggingRef, whether Leaflet is dragging it, and
\* the timeouts of dragend that have not fired yet.
MarkersInitial ==
  [id \in 1..MaxClock |-> [isDraggingRef |-> FALSE, dragging |-> FALSE, timers |-> 0]]

\* useMediaRecorder: the state cells and refs of the hook, and around them
\* the startRecording calls made so far, their streams and recorders, and
\* the interval timers that run.
NoMedia == [by |-> NoId, chunks |-> <<>>]
Requests == 1..MaxRequests
HookInitial ==
  [isRecording |-> FALSE, mediaUrl |-> NoMedia, error |-> "none", previewStream |-> NoId,
   mediaRecorderRef |-> NoId, chunksRef |-> <<>>, timerRef |-> NoId, streamRef |-> NoId,
   activeRequestRef |-> NoId,
   requests |-> [r \in Requests |-> [status |-> "none", type |-> "none"]],
   streams |-> [r \in Requests |-> "none"],
   recorders |-> [r \in Requests |-> "none"],
   timers |-> {},
   cancelled |-> {}]

\* The initial values of MapBoard's useState cells that are not loaded
\* from storage, and of the freehand recorder mounted with it.
UiInitial ==
  /\ mode' = "browse"
  /\ showColorPicker' = FALSE
  /\ showVideoModal' = FALSE
  /\ showPinNameModal' = FALSE
  /\ newPinCoords' = FALSE
  /\ connectStartNode' = NoNode
  /\ deleteTarget' = NoNode
  /\ pencilColor' = "#50B748"
  /\ popupPin' = NoId
  /\ hoveredPathId' = NoId
  /\ isDrawing' = FALSE
  /\ pointsRef' = <<>>
  /\ pressed' = FALSE

(***************************************************************************)
(* Start of the application on a given storage content: App's lazy        *)
(* initialiser and persistence effect, then MapBoard's mount.             *)
(***************************************************************************)
FreshStorage == [k \in Keys |-> Missing]

BootApp(store, fails) ==
  LET lprops == LoadCollection(store[KeyProperties])
      saved == SaveProperties(store, lprops.val, fails)
      board == MountBoard(saved.ls, lprops.val, fails)
  IN [properties |-> IF lprops.escaped \/ board.threw THEN <<>> ELSE lprops.val,
      board |-> board,
      alert |-> saved.alert,
      threw |-> lprops.escaped \/ board.threw,
      rejected |-> saved.rejected \cup board.rejected]

InitFrom(store) ==
  LET b == BootApp(store, {})
  IN /\ view = "map"
     /\ properties = b.properties
     /\ selectedPropertyId = NoId
     /\ mode = "browse"
     /\ showColorPicker = FALSE
     /\ showVideoModal = FALSE
     /\ showPinNameModal = FALSE
     /\ newPinCoords = FALSE
     /\ connectStartNode = NoNode
     /\ deleteTarget = NoNode
     /\ pencilColor = "#50B748"
     /\ popupPin = NoId
     /\ hoveredPathId = NoId
     /\ isDrawing = FALSE
     /\ pointsRef = <<>>
     /\ pressed = FALSE
     /\ geometry = NoGeometry
     /\ images = ImagesInitial
     /\ comparison = ComparisonInitial
     /\ propertyList = ListInitial
     /\ marker = MarkersInitial
     /\ recorder = HookInitial
     /\ paths = b.board.paths
     /\ stickers = b.board.stickers
     /\ lifePins = b.board.lifePins
     /\ yarnConnections = b.board.yarnConnections
     /\ ls = b.board.ls
     /\ now = 0
     /\ conversions = {}
     /\ last = NoOp
     /\ alertMsg = b.alert
     /\ uncaught = b.threw
     /\ rejected = b.rejected
     /\ crashed = b.threw

\* A first start: nothing is stored yet.
Init == InitFrom(FreshStorage)

\* The page is loaded again (browser reload): every component state is
\* rebuilt from storage and the pending callbacks of the old page are gone.
Reload(fails) ==
  LET b == BootApp(ls, fails)
  IN /\ view' = "map"
     /\ properties' = b.properties
     /\ selectedPropertyId' = NoId
     /\ UiInitial
     /\ paths' = b.board.paths
     /\ stickers' = b.board.stickers
     /\ lifePins' = b.board.lifePins
     /\ yarnConnections' = b.board.yarnConnections
     /\ ls' = b.board.ls
     /\ conversions' = {}
     /\ crashed' = b.threw
     /\ last' = [op |-> "reload", id |-> NoId, type |-> "none", delta |-> 0, reset |-> ResetInStep]
     /\ alertMsg' = b.alert
     /\ uncaught' = b.threw
     /\ rejected' = b.rejected
     /\ images' = Unmounted(images)
     /\ comparison' = ComparisonInitial
     /\ propertyList' = [propertyList EXCEPT !.activeCategory = AllCategories]
     /\ marker' = MarkersInitial
     /\ recorder' = HookInitial
     /\ UNCHANGED <<now, geometry>>

(***************************************************************************)
(* Persistence of MapBoard.                                                *)
(***************************************************************************)
\* The two persistence effects (life pins, yarn connections): each runs
\* when its setter was called in the step, and throws if the write fails.
PersistEffects(store, setPins, pins, setYarns, yarns, fails) ==
  LET s1 == IF setPins THEN SetItem(store, KeyLifePins, pins, fails) ELSE store
      s2 == IF setYarns THEN SetItem(s1, KeyYarns, yarns, fails) ELSE s1
      rej == (IF setPins THEN fails \cap {KeyLifePins} ELSE {})
               \cup (IF setYarns THEN fails \cap {KeyYarns} ELSE {})
  IN [ls |-> s2, threw |-> rej # {}, rejected |-> rej]

\* savePaths / saveStickers: setItem first, then the state setter; a
\* throwing setItem leaves the state as it was.
SaveList(store, key, cur, new, fails) ==
  IF key \in fails
  THEN [ls |-> store, list |-> cur, threw |-> TRUE, rejected |-> {key}]
  ELSE [ls |-> SetItem(store, key, new, fails), list |-> new, threw |-> FALSE,
        rejected |-> {}]

(***************************************************************************)
(* Mode controller.                                                        *)
(***************************************************************************)
\* setMode(m) followed by the mode-change effect, which runs only when the
\* mode value changed.
EnterMode(m, picker, start) ==
  /\ mode' = m
  /\ showColorPicker' = IF m # mode THEN PickerAfterMode(m, picker) ELSE picker
  /\ connectStartNode' = IF m # mode THEN StartAfterMode(m, start) ELSE start

\* The toolbar is rendered while no new-pin preview is placed.
ToolbarUsable == BoardFree /\ ~newPinCoords

\* onClick={() => setMode(mode === tool ? 'browse' : tool)}
ToggleTargetStay(tool) == tool

ToggleTarget(tool) == IF mode = tool THEN "browse" ELSE tool

ToolbarBrowse ==
  /\ UNCHANGED localVars
  /\ ToolbarUsable
  /\ EnterMode("browse", showColorPicker, connectStartNode)
  /\ UNCHANGED <<appVars, showVideoModal, showPinNameModal, newPinCoords,
                 deleteTarget, pencilColor, popupPin, dataVars, envVars, crashed>>
  /\ Observe("toolbar", NoId, "browse", "none", FALSE, {})

ToolbarToggle(tool) ==
  /\ UNCHANGED localVars
  /\ ToolbarUsable
  /\ EnterMode(ToggleTarget(tool), showColorPicker, connectStartNode)
  /\ UNCHANGED <<appVars, showVideoModal, showPinNameModal, newPinCoords,
                 deleteTarget, pencilColor, popupPin, dataVars, envVars, crashed>>
  /\ Observe("toolbar", NoId, tool, "none", FALSE, {})

\* The pencil button: opens the colour picker when entering pencil mode,
\* toggles it when already in pencil mode.
ToolbarPencil ==
  /\ UNCHANGED localVars
  /\ ToolbarUsable
  /\ IF mode = "pencil"
     THEN /\ showColorPicker' = ~showColorPicker
          /\ UNCHANGED <<mode, connectStartNode>>
     ELSE EnterMode("pencil", TRUE, connectStartNode)
  /\ UNCHANGED <<appVars, showVideoModal, showPinNameModal, newPinCoords,
                 deleteTarget, pencilColor, popupPin, dataVars, envVars, crashed>>
  /\ Observe("toolbar", NoId, "pencil", "none", FALSE, {})

PickColor(c) ==
  /\ UNCHANGED localVars
  /\ ToolbarUsable
  /\ showColorPicker
  /\ pencilColor' = c
  /\ showColorPicker' = FALSE
  /\ UNCHANGED <<appVars, mode, showVideoModal, showPinNameModal, newPinCoords,
                 connectStartNode, deleteTarget, popupPin, dataVars, envVars,
                 crashed>>
  /\ Observe("pickColor", NoId, "none", "none", FALSE, {})

(***************************************************************************)
(* Clicks on the map itself.                                               *)
(***************************************************************************)
\* handleMapClick leaving connect-line mode whether or not a start node
\* is pending.
MapClickExits ==
  /\ UNCHANGED localVars
  /\ BoardFree
  /\ popupPin' = NoId
  /\ CASE mode = "add_pin" ->
            /\ newPinCoords' = TRUE
            /\ UNCHANGED <<mode, showColorPicker, connectStartNode, showPinNameModal>>
       [] mode = "add_life_pin" ->
            /\ showPinNameModal' = TRUE
            /\ UNCHANGED <<mode, showColorPicker, connectStartNode, newPinCoords>>
       [] mode = "connect-line" ->
            /\ EnterMode("browse", showColorPicker, connectStartNode)
            /\ UNCHANGED <<showPinNameModal, newPinCoords>>
       [] OTHER ->
            UNCHANGED <<mode, showColorPicker, connectStartNode,
                        showPinNameModal, newPinCoords>>
  /\ UNCHANGED <<appVars, showVideoModal, deleteTarget, pencilColor, dataVars,
                 envVars, crashed>>
  /\ Observe("handleMapClick", NoId, "none", "none", FALSE, {})

\* handleMapClick; Leaflet also closes an open popup on a map click.
MapClick ==
  /\ UNCHANGED localVars
  /\ BoardFree
  /\ popupPin' = NoId
  /\ CASE mode = "add_pin" ->
            /\ newPinCoords' = TRUE
            /\ UNCHANGED <<mode, showColorPicker, connectStartNode, showPinNameModal>>
       [] mode = "add_life_pin" ->
            /\ showPinNameModal' = TRUE
            /\ UNCHANGED <<mode, showColorPicker, connectStartNode, newPinCoords>>
       [] mode = "connect-line" ->
            /\ IF connectStartNode # NoNode
               THEN /\ connectStartNode' = NoNode
                    /\ UNCHANGED <<mode, showColorPicker>>
               ELSE EnterMode("browse", showColorPicker, connectStartNode)
            /\ UNCHANGED <<showPinNameModal, newPinCoords>>
       [] OTHER ->
            UNCHANGED <<mode, showColorPicker, connectStartNode,
                        showPinNameModal, newPinCoords>>
  /\ UNCHANGED <<appVars, showVideoModal, deleteTarget, pencilColor, dataVars,
                 envVars, crashed>>
  /\ Observe("handleMapClick", NoId, "none", "none", FALSE, {})

(***************************************************************************)
(* Creating life pins and properties.                                      *)
(***************************************************************************)
PinNames == {"gongsi"}
NewNames == {"gongsi", "xuexiao"}

\* handleConfirmPinName (the modal passes a non-empty trimmed name).
ConfirmPinName(name, fails) ==
  /\ UNCHANGED localVars
  /\ Mounted
  /\ showPinNameModal
  /\ now < MaxClock
  /\ now' = now + 1
  /\ lifePins' = Append(lifePins, [id |-> now + 1, name |-> name])
  /\ showPinNameModal' = FALSE
  /\ EnterMode("browse", showColorPicker, connectStartNode)
  /\ UNCHANGED <<appVars, showVideoModal, newPinCoords, deleteTarget,
                 pencilColor, popupPin, paths, stickers, yarnConnections,
                 conversions>>
  /\ LET w == PersistEffects(ls, TRUE, lifePins', FALSE, yarnConnections, fails)
     IN /\ ls' = w.ls
        /\ crashed' = w.threw
        /\ Observe("handleConfirmPinName", now + 1, "pin", "none", w.threw, w.rejected)

CancelPinName ==
  /\ UNCHANGED localVars
  /\ Mounted
  /\ showPinNameModal
  /\ showPinNameModal' = FALSE
  /\ EnterMode("browse", showColorPicker, connectStartNode)
  /\ UNCHANGED <<appVars, showVideoModal, newPinCoords, deleteTarget,
                 pencilColor, popupPin, dataVars, envVars, crashed>>
  /\ Observe("handleCancelPinName", NoId, "none", "none", FALSE, {})

\* confirmAddPin -> App.handleAddProperty; the new property is selected.
ConfirmAddPin(fails) ==
  /\ UNCHANGED localVars
  /\ BoardFree
  /\ newPinCoords
  /\ now < MaxClock
  /\ now' = now + 1
  /\ properties' = Append(properties, [id |-> now + 1, rating |-> 0])
  /\ selectedPropertyId' = now + 1
  /\ newPinCoords' = FALSE
  /\ EnterMode("browse", showColorPicker, connectStartNode)
  /\ yarnConnections' = ZombieCleanup(yarnConnections, properties')
  /\ UNCHANGED <<view, showVideoModal, showPinNameModal, deleteTarget,
                 pencilColor, popupPin, paths, stickers, lifePins, conversions>>
  /\ LET saved == SaveProperties(ls, properties', fails)
         w == PersistEffects(saved.ls, FALSE, lifePins, TRUE,
                             yarnConnections', fails)
     IN /\ ls' = w.ls
        /\ crashed' = (w.threw \/ saved.threw)
        /\ Observe("confirmAddPin", now + 1, "property", saved.alert,
                   w.threw \/ saved.threw, w.rejected \cup saved.rejected)

CancelAddPin ==
  /\ UNCHANGED localVars
  /\ BoardFree
  /\ newPinCoords
  /\ newPinCoords' = FALSE
  /\ UNCHANGED <<appVars, mode, showColorPicker, showVideoModal,
                 showPinNameModal, connectStartNode, deleteTarget, pencilColor,
                 popupPin, dataVars, envVars, crashed>>
  /\ Observe("cancelAddPin", NoId, "none", "none", FALSE, {})

(***************************************************************************)
(* Clicks on markers: handleNodeClick.                                     *)
(***************************************************************************)
\* The state handleNodeClick reads and writes.
NodeState(m, start, yarns, target, selected) ==
  [mode |-> m, start |-> start, yarns |-> yarns, target |-> target,
   selected |-> selected, alert |-> "none"]

\* The toggle at the end of a valid connect gesture; t is Date.now().
ToggleAlwaysAdd(yarns, propId, pinId, t) ==
  Append(yarns, [id |-> t, propertyId |-> propId, pinId |-> pinId])

ToggleByProperty(yarns, propId, pinId, t) ==
  IF \E i \in 1..Len(yarns) : yarns[i].propertyId = propId /\ yarns[i].pinId = pinId
  THEN SelectSeq(yarns, LAMBDA y : y.propertyId # propId)
  ELSE Append(yarns, [id |-> t, propertyId |-> propId, pinId |-> pinId])

ToggleConnection(yarns, propId, pinId, t) ==
  IF \E i \in 1..Len(yarns) : yarns[i].propertyId = propId /\ yarns[i].pinId = pinId
  THEN LET i == CHOOSE j \in 1..Len(yarns) :
                  /\ yarns[j].propertyId = propId /\ yarns[j].pinId = pinId
                  /\ \A k \in 1..(j - 1) :
                       ~(yarns[k].propertyId = propId /\ yarns[k].pinId = pinId)
           existing == yarns[i]
       IN SelectSeq(yarns, LAMBDA y : y.id # existing.id)
  ELSE Append(yarns, [id |-> t, propertyId |-> propId, pinId |-> pinId])

\* Step 2 of the connect gesture accepts any second node.
HandleNodeClickNoValidation(s, id, type, t) ==
  IF s.mode = "connect-line" /\ s.start # NoNode
  THEN [s EXCEPT !.start = NoNode,
                 !.yarns = ToggleConnection(s.yarns,
                             IF type = "property" THEN id ELSE s.start.id,
                             IF type = "property" THEN s.start.id ELSE id, t)]
  ELSE IF s.mode = "connect-line"
  THEN [s EXCEPT !.start = [id |-> id, type |-> type]]
  ELSE s

HandleNodeClick(s, id, type, t) ==
  IF s.mode = "eraser"
  THEN [s EXCEPT !.target = [id |-> id, type |-> type]]
  ELSE IF s.mode = "connect-line"
  THEN IF s.start = NoNode
       THEN [s EXCEPT !.start = [id |-> id, type |-> type]]
       ELSE IF s.start.id = id
       THEN [s EXCEPT !.start = NoNode]
       ELSE IF s.start.type = "property" /\ type = "pin"
       THEN [s EXCEPT !.start = NoNode,
                      !.yarns = ToggleConnection(s.yarns, s.start.id, id, t)]
       ELSE IF s.start.type = "pin" /\ type = "property"
       THEN [s EXCEPT !.start = NoNode,
                      !.yarns = ToggleConnection(s.yarns, id, s.start.id, t)]
       ELSE [s EXCEPT !.start = NoNode, !.alert = "connect-kinds"]
  ELSE IF type = "property"
  THEN [s EXCEPT !.selected = id]
  ELSE s

CurrentNodeState ==
  NodeState(mode, connectStartNode, yarnConnections, deleteTarget,
            selectedPropertyId)

\* Commits the result r of one or two handleNodeClick calls.
CommitNodeClick(r, fails) ==
  /\ connectStartNode' = r.start
  /\ yarnConnections' = r.yarns
  /\ deleteTarget' = r.target
  /\ selectedPropertyId' = r.selected
  /\ now' = IF Len(r.yarns) > Len(yarnConnections) THEN now + 1 ELSE now
  /\ LET w == PersistEffects(ls, FALSE, lifePins, r.yarns # yarnConnections,
                             r.yarns, fails)
     IN /\ ls' = w.ls
        /\ crashed' = w.threw
        /\ uncaught' = w.threw
        /\ rejected' = w.rejected
  /\ alertMsg' = r.alert

\* A new connection needs a fresh Date.now() value.
ClockAllows(r) == Len(r.yarns) > Len(yarnConnections) => now < MaxClock

\* handlePropertyMarkerSelect, from the marker's click handler.
ClickProperty(id, fails) ==
  /\ UNCHANGED localVars
  /\ BoardFree
  /\ id \in Ids(properties)
  /\ LET r == HandleNodeClick(CurrentNodeState, id, "property", now + 1)
     IN /\ ClockAllows(r)
        /\ CommitNodeClick(r, fails)
  /\ UNCHANGED <<view, properties, mode, showColorPicker, showVideoModal,
                 showPinNameModal, newPinCoords, pencilColor, popupPin, paths,
                 stickers, lifePins, conversions>>
  /\ last' = [op |-> "handleNodeClick", id |-> id, type |-> "property",
              delta |-> Len(yarnConnections') - Len(yarnConnections),
              reset |-> ResetInStep]

\* handlePinMarkerSelect, from the life pin marker's click handler, which
\* also closes the pin's popup.
ClickPin(id, fails) ==
  /\ UNCHANGED localVars
  /\ BoardFree
  /\ id \in Ids(lifePins)
  /\ LET r == HandleNodeClick(CurrentNodeState, id, "pin", now + 1)
     IN /\ ClockAllows(r)
        /\ CommitNodeClick(r, fails)
  /\ popupPin' = IF popupPin = id THEN NoId ELSE popupPin
  /\ UNCHANGED <<view, properties, mode, showColorPicker, showVideoModal,
                 showPinNameModal, newPinCoords, pencilColor, paths,
                 stickers, lifePins, conversions>>
  /\ last' = [op |-> "handleNodeClick", id |-> id, type |-> "pin",
              delta |-> Len(yarnConnections') - Len(yarnConnections),
              reset |-> ResetInStep]

\* A double click on a life pin marker: the browser delivers two clicks
\* and then dblclick, which opens the pin's popup (rename / delete).  In
\* eraser mode the first click opens the delete confirmation instead.
DblClickPin(id, fails) ==
  /\ UNCHANGED localVars
  /\ BoardFree
  /\ id \in Ids(lifePins)
  /\ mode # "eraser"
  /\ LET r1 == HandleNodeClick(CurrentNodeState, id, "pin", now + 1)
         r2 == HandleNodeClick([r1 EXCEPT !.alert = "none"], id, "pin", now + 1)
     IN /\ ClockAllows(r2)
        /\ CommitNodeClick(r2, fails)
  /\ popupPin' = id
  /\ UNCHANGED <<view, properties, mode, showColorPicker, showVideoModal,
                 showPinNameModal, newPinCoords, pencilColor, paths,
                 stickers, lifePins, conversions>>
  /\ last' = [op |-> "dblclick", id |-> id, type |-> "pin",
              delta |-> Len(yarnConnections') - Len(yarnConnections),
              reset |-> ResetInStep]

(***************************************************************************)
(* Deleting.                                                               *)
(***************************************************************************)
\* The delete button of a property marker (hidden in connect-line mode).
RequestDeleteProperty(id) ==
  /\ UNCHANGED localVars
  /\ BoardFree
  /\ mode # "connect-line"
  /\ id \in Ids(properties)
  /\ deleteTarget' = [id |-> id, type |-> "property"]
  /\ UNCHANGED <<appVars, mode, showColorPicker, showVideoModal,
                 showPinNameModal, newPinCoords, connectStartNode, pencilColor,
                 popupPin, dataVars, envVars, crashed>>
  /\ Observe("handleRequestDeleteProperty", id, "property", "none", FALSE, {})

\* The delete button inside a life pin's popup.
PopupDeletePin(id) ==
  /\ UNCHANGED localVars
  /\ BoardFree
  /\ popupPin = id
  /\ id \in Ids(lifePins)
  /\ deleteTarget' = [id |-> id, type |-> "pin"]
  /\ UNCHANGED <<appVars, mode, showColorPicker, showVideoModal,
                 showPinNameModal, newPinCoords, connectStartNode, pencilColor,
                 popupPin, dataVars, envVars, crashed>>
  /\ Observe("LifePinMarker.onDelete", id, "pin", "none", FALSE, {})

CancelDelete ==
  /\ UNCHANGED localVars
  /\ Mounted
  /\ deleteTarget # NoNode
  /\ deleteTarget' = NoNode
  /\ UNCHANGED <<appVars, mode, showColorPicker, showVideoModal,
                 showPinNameModal, newPinCoords, connectStartNode, pencilColor,
                 popupPin, dataVars, envVars, crashed>>
  /\ Observe("cancelDelete", NoId, "none", "none", FALSE, {})

\* App.handleDeleteProperty: the list without the property; the selection
\* is cleared when it was the deleted property.
RemoveProperty(props, id) == SelectSeq(props, LAMBDA p : p.id # id)
SelectionAfterDelete(cur, id) == IF cur = id THEN NoId ELSE cur

\* handleConfirmDelete, pin branch: the yarn connections that remain.
YarnsWithoutPin(yarns, pinId) == SelectSeq(yarns, LAMBDA y : y.pinId # pinId)

\* handleConfirmDelete followed by the effects it triggers.
ConfirmDelete(fails) ==
  /\ UNCHANGED localVars
  /\ Mounted
  /\ deleteTarget # NoNode
  /\ deleteTarget' = NoNode
  /\ IF deleteTarget.type = "pin"
     THEN /\ lifePins' = SelectSeq(lifePins, LAMBDA p : p.id # deleteTarget.id)
          /\ yarnConnections' = YarnsWithoutPin(yarnConnections, deleteTarget.id)
          /\ popupPin' = IF popupPin = deleteTarget.id THEN NoId ELSE popupPin
          /\ UNCHANGED <<properties, selectedPropertyId>>
          /\ LET w == PersistEffects(ls, TRUE, lifePins', TRUE, yarnConnections',
                                     fails)
             IN /\ ls' = w.ls
                /\ crashed' = w.threw
                /\ uncaught' = w.threw
                /\ rejected' = w.rejected
                /\ alertMsg' = "none"
     ELSE /\ properties' = RemoveProperty(properties, deleteTarget.id)
          /\ selectedPropertyId' =
               SelectionAfterDelete(selectedPropertyId, deleteTarget.id)
          /\ yarnConnections' = ZombieCleanup(yarnConnections, properties')
          /\ UNCHANGED <<lifePins, popupPin>>
          /\ LET saved == SaveProperties(ls, properties', fails)
                 w == PersistEffects(saved.ls, FALSE, lifePins, TRUE,
                                     yarnConnections', fails)
             IN /\ ls' = w.ls
                /\ crashed' = (w.threw \/ saved.threw)
                /\ uncaught' = (w.threw \/ saved.threw)
                /\ rejected' = w.rejected \cup saved.rejected
                /\ alertMsg' = saved.alert
  /\ UNCHANGED <<view, mode, showColorPicker, showVideoModal, showPinNameModal,
                 newPinCoords, connectStartNode, pencilColor, paths, stickers,
                 now, conversions>>
  /\ last' = [op |-> "handleConfirmDelete", id |-> deleteTarget.id,
              type |-> deleteTarget.type,
              delta |-> Len(yarnConnections') - Len(yarnConnections),
              reset |-> ResetInStep]

\* handlePinRename, from the name field of a life pin's popup (the field
\* passes a non-empty trimmed name that differs from the current one).
RenamePin(id, name, fails) ==
  /\ UNCHANGED localVars
  /\ BoardFree
  /\ popupPin = id
  /\ \E i \in 1..Len(lifePins) : lifePins[i].id = id /\ lifePins[i].name # name
  /\ lifePins' = [i \in 1..Len(lifePins) |->
                    IF lifePins[i].id = id
                    THEN [lifePins[i] EXCEPT !.name = name]
                    ELSE lifePins[i]]
  /\ UNCHANGED <<appVars, uiVars, paths, stickers, yarnConnections, now,
                 conversions>>
  /\ LET w == PersistEffects(ls, TRUE, lifePins', FALSE, yarnConnections, fails)
     IN /\ ls' = w.ls
        /\ crashed' = w.threw
        /\ Observe("handlePinRename", id, "pin", "none", w.threw, w.rejected)

\* The "delete connection" button in a yarn's popup.
DeleteConnection(id, fails) ==
  /\ UNCHANGED localVars
  /\ BoardFree
  /\ \E i \in 1..Len(yarnConnections) :
        /\ yarnConnections[i].id = id
        \* YarnOverlay renders a connection only when both ends exist.
        /\ yarnConnections[i].propertyId \in Ids(properties)
        /\ yarnConnections[i].pinId \in Ids(lifePins)
  /\ yarnConnections' = SelectSeq(yarnConnections, LAMBDA c : c.id # id)
  /\ UNCHANGED <<appVars, uiVars, paths, stickers, lifePins, now, conversions>>
  /\ LET w == PersistEffects(ls, FALSE, lifePins, TRUE, yarnConnections', fails)
     IN /\ ls' = w.ls
        /\ crashed' = w.threw
        /\ Observe("handleDeleteConnection", id, "yarn", "none", w.threw, w.rejected)

\* MemoDrawer: closing it clears the selection; its delete button (with
\* its own confirmation) calls App.handleDeleteProperty.
DrawerClose ==
  /\ UNCHANGED localVars
  /\ DrawerOpen
  /\ selectedPropertyId' = NoId
  /\ UNCHANGED <<view, properties, uiVars, dataVars, envVars, crashed>>
  /\ Observe("MemoDrawer.onClose", NoId, "none", "none", FALSE, {})

DrawerDelete(fails) ==
  /\ UNCHANGED localVars
  /\ DrawerOpen
  /\ properties' = RemoveProperty(properties, selectedPropertyId)
  /\ selectedPropertyId' = SelectionAfterDelete(selectedPropertyId, selectedPropertyId)
  /\ yarnConnections' = ZombieCleanup(yarnConnections, properties')
  /\ UNCHANGED <<view, uiVars, paths, stickers, lifePins, now, conversions>>
  /\ LET saved == SaveProperties(ls, properties', fails)
         w == PersistEffects(saved.ls, FALSE, lifePins, TRUE,
                             yarnConnections', fails)
     IN /\ ls' = w.ls
        /\ crashed' = (w.threw \/ saved.threw)
        /\ Observe("MemoDrawer.onDelete", selectedPropertyId, "property",
                   saved.alert, w.threw \/ saved.threw, w.rejected \cup saved.rejected)

\* MemoDrawer's rating buttons: onUpdate({...property, rating: star}) ->
\* App.handleUpdateProperty, followed by the effects on properties.
Stars == 1..5

RateProperty(star, fails) ==
  /\ UNCHANGED localVars
  /\ DrawerOpen
  /\ properties' = [i \in 1..Len(properties) |->
                      IF properties[i].id = selectedPropertyId
                      THEN [properties[i] EXCEPT !.rating = star]
                      ELSE properties[i]]
  /\ yarnConnections' = ZombieCleanup(yarnConnections, properties')
  /\ UNCHANGED <<view, selectedPropertyId, uiVars, paths, stickers, lifePins,
                 now, conversions>>
  /\ LET saved == SaveProperties(ls, properties', fails)
         w == PersistEffects(saved.ls, FALSE, lifePins, TRUE,
                             yarnConnections', fails)
     IN /\ ls' = w.ls
        /\ crashed' = (w.threw \/ saved.threw)
        /\ Observe("MemoDrawer.onUpdate", selectedPropertyId, "property",
                   saved.alert, w.threw \/ saved.threw, w.rejected \cup saved.rejected)

(***************************************************************************)
(* Freehand paths.                                                         *)
(***************************************************************************)
\* The strokes the recorder hands to handlePathFinish (two or more points).
Strokes == {<<1, 2>>}

\* The points (e.latlng) a pointer event carries.
Points == {1, 2}

\* handlePathFinish: the new path goes to the end of the collection.
HandlePathFinish(coords, fails) ==
  /\ now < MaxClock
  /\ now' = now + 1
  /\ LET newPath == [id |-> now + 1, coords |-> coords, color |-> pencilColor,
                     timestamp |-> now + 1]
         w == SaveList(ls, KeyPaths, paths, Append(paths, newPath), fails)
     IN /\ ls' = w.ls
        /\ paths' = w.list
        /\ UNCHANGED <<appVars, uiVars, stickers, lifePins, yarnConnections,
                       conversions, crashed>>
        /\ Observe("handlePathFinish", now + 1, "path", "none", w.threw, w.rejected)

\* A whole stroke of two or more points, from pointer-down to pointer-up.
DrawPath(coords, fails) ==
  /\ UNCHANGED localVars
  /\ BoardFree
  /\ mode = "pencil"
  /\ HandlePathFinish(coords, fails)

\* FreehandDrawController, mousedown: a stroke starts with the point.
PointerDown(pt) ==
  /\ BoardFree
  /\ mode = "pencil"
  /\ ~pressed
  /\ pressed' = TRUE
  /\ isDrawing' = TRUE
  /\ pointsRef' = <<pt>>
  /\ UNCHANGED <<appVars, uiVars, hoveredPathId, viewVars, sideVars, dataVars, envVars, crashed>>
  /\ Observe("mousedown", NoId, "path", "none", FALSE, {})

\* FreehandDrawController, mousemove: the point is captured.
PointerMove(pt) ==
  /\ BoardFree
  /\ mode = "pencil"
  /\ isDrawing
  /\ Len(pointsRef) < MaxPoints
  /\ pointsRef' = Append(pointsRef, pt)
  /\ UNCHANGED <<appVars, uiVars, hoveredPathId, isDrawing, pressed, viewVars, sideVars,
                 dataVars, envVars, crashed>>
  /\ Observe("mousemove", NoId, "path", "none", FALSE, {})

\* FreehandDrawController, mouseup: if (pointsRef.current.length > 1).
FinishesAnyStroke(points) == Len(points) > 0

FinishesStroke(points) == Len(points) > 1

\* FreehandDrawController, mouseup: the stroke is handed to
\* handlePathFinish or discarded; an exception of handlePathFinish leaves
\* the captured points in the recorder.
PointerUp(fails) ==
  /\ BoardFree
  /\ mode = "pencil"
  /\ isDrawing
  /\ pressed
  /\ pressed' = FALSE
  /\ isDrawing' = FALSE
  /\ UNCHANGED <<hoveredPathId, viewVars, sideVars>>
  /\ IF FinishesStroke(pointsRef)
     THEN /\ pointsRef' = IF KeyPaths \in fails THEN pointsRef ELSE <<>>
          /\ HandlePathFinish(pointsRef, fails)
     ELSE /\ pointsRef' = <<>>
          /\ UNCHANGED <<appVars, uiVars, dataVars, envVars, crashed>>
          /\ Observe("mouseup", NoId, "path", "none", FALSE, {})

\* The pointer is released where the map gets no mouseup: over the toolbar
\* or another overlay of the board, or outside the window.  No handler of
\* the recorder runs.
ReleaseOutside ==
  /\ Mounted
  /\ pressed
  /\ pressed' = FALSE
  /\ UNCHANGED <<appVars, uiVars, hoveredPathId, isDrawing, pointsRef, viewVars, sideVars,
                 dataVars, envVars, crashed>>
  /\ Observe("mouseup.outside", NoId, "none", "none", FALSE, {})

\* deletePath: paths.filter(p => p.id !== id).
PathsUpTo(ps, id) == SelectSeq(ps, LAMBDA q : q.id > id)

PathsWithout(ps, id) == SelectSeq(ps, LAMBDA q : q.id # id)

\* deletePath, from a click on a path in eraser mode.
ErasePath(id, fails) ==
  /\ UNCHANGED localVars
  /\ BoardFree
  /\ mode = "eraser"
  /\ id \in Ids(paths)
  /\ LET w == SaveList(ls, KeyPaths, paths, PathsWithout(paths, id), fails)
     IN /\ ls' = w.ls
        /\ paths' = w.list
        /\ UNCHANGED <<appVars, uiVars, stickers, lifePins, yarnConnections,
                       now, conversions, crashed>>
        /\ Observe("deletePath", id, "path", "none", w.threw, w.rejected)

\* The pointer enters a path: mouseover, handled in eraser mode only.
HoverPath(id) ==
  /\ BoardFree
  /\ mode = "eraser"
  /\ id \in Ids(paths)
  /\ hoveredPathId # id
  /\ hoveredPathId' = id
  /\ UNCHANGED <<appVars, uiVars, isDrawing, pointsRef, pressed, viewVars, sideVars, dataVars,
                 envVars, crashed>>
  /\ Observe("mouseover", id, "path", "none", FALSE, {})

\* The pointer leaves the path: mouseout.
UnhoverPath ==
  /\ BoardFree
  /\ hoveredPathId # NoId
  /\ hoveredPathId' = NoId
  /\ UNCHANGED <<appVars, uiVars, isDrawing, pointsRef, pressed, viewVars, sideVars, dataVars,
                 envVars, crashed>>
  /\ Observe("mouseout", NoId, "path", "none", FALSE, {})

\* A click at the place of a path outside eraser mode: the path is not
\* interactive (interactive={isEraser}) and the click goes to the map.
ClickInactivePath(id) ==
  /\ mode # "eraser"
  /\ id \in Ids(paths)
  /\ MapClick

(***************************************************************************)
(* Dragging a property marker.  dragend starts a timeout of 50 ms that     *)
(* clears isDraggingRef; the timeouts of a marker run in the order in      *)
(* which they were started and none is ever cancelled.                     *)
(***************************************************************************)
\* No marker is being dragged: the pointer is free for something else.
NoDrag == \A id \in 1..MaxClock : ~marker[id].dragging

MarkerStep(m, op, id) ==
  /\ marker' = m
  /\ UNCHANGED <<appVars, uiVars, toolVars, viewVars, comparison, propertyList, recorder,
                 dataVars, envVars, crashed>>
  /\ Observe(op, id, "property", "none", FALSE, {})

\* dragstart; the marker is draggable={!isConnectMode}.
DragStart(id) ==
  /\ BoardFree
  /\ NoDrag
  /\ id \in Ids(properties)
  /\ mode # "connect-line"
  /\ MarkerStep([marker EXCEPT ![id].isDraggingRef = TRUE, ![id].dragging = TRUE],
                "dragstart", id)

\* dragend: onUpdate with the new location (the properties are written to
\* storage by the persistence effect), onDragEnd, and the timeout.
DragEnd(id, fails) ==
  /\ Mounted
  /\ id \in Ids(properties)
  /\ marker[id].dragging
  /\ IF mode = "connect-line"
     THEN MarkerStep([marker EXCEPT ![id].dragging = FALSE], "dragend", id)
     ELSE /\ marker[id].timers < MaxTimers
          /\ marker' = [marker EXCEPT ![id].dragging = FALSE, ![id].timers = @ + 1]
          /\ UNCHANGED <<appVars, uiVars, toolVars, viewVars, comparison, propertyList,
                         recorder, dataVars, now, conversions, crashed>>
          /\ LET saved == SaveProperties(ls, properties, fails)
             IN /\ ls' = saved.ls
                /\ Observe("dragend", id, "property", saved.alert, saved.threw,
                           saved.rejected)

\* The oldest timeout of the marker runs: isDraggingRef.current = false.
DragTimeout(id) ==
  /\ ~crashed
  /\ marker[id].timers > 0
  /\ MarkerStep([marker EXCEPT ![id].isDraggingRef = FALSE, ![id].timers = @ - 1],
                "dragTimeout", id)

\* A click event on the marker: if (isDraggingRef.current) return;
\* otherwise onSelect(property.id).
MarkerClick(id, fails) ==
  /\ NoDrag
  /\ IF marker[id].isDraggingRef
     THEN /\ BoardFree
          /\ id \in Ids(properties)
          /\ MarkerStep(marker, "marker.click", id)
     ELSE ClickProperty(id, fails)

(***************************************************************************)
(* useMediaRecorder.  A startRecording call is a request: it resets the    *)
(* hook and waits for getUserMedia; the device answers later with a stream *)
(* or an error.  recorder.stop() makes the recorder inactive at once and   *)
(* queues one task that fires dataavailable and then stop.                 *)
(***************************************************************************)
RecordingTypes == {"audio", "video"}

\* The next Symbol('startRecording'): a request that was not made yet.
FreeRequests(h) == {r \in Requests : h.requests[r].status = "none"}

\* stream.getTracks().forEach(t => t.stop()) on the stream in streamRef.
StopStreamRef(h) ==
  IF h.streamRef = NoId THEN h.streams
  ELSE [h.streams EXCEPT ![h.streamRef] = "stopped"]

\* startRecording up to its await.
StartRecordingOf(h, r, type) ==
  [h EXCEPT !.activeRequestRef = r,
            !.error = "none",
            !.mediaUrl = NoMedia,
            !.chunksRef = <<>>,
            !.requests = [h.requests EXCEPT ![r] = [status |-> "pending", type |-> type]]]

\* if (activeRequestRef.current !== requestId)
NeverInvalidated(h, r) == FALSE

Invalidated(h, r) == h.activeRequestRef # r

\* startRecording after getUserMedia has resolved with the stream of r.
AcquiredOf(h, r) ==
  IF Invalidated(h, r)
  THEN [h EXCEPT !.streams = [h.streams EXCEPT ![r] = "stopped"],
                 !.requests = [h.requests EXCEPT ![r].status = "dropped"]]
  ELSE [h EXCEPT !.streams = [h.streams EXCEPT ![r] = "live"],
                 !.streamRef = r,
                 !.previewStream = IF h.requests[r].type = "video" THEN r
                                   ELSE h.previewStream,
                 !.recorders = [h.recorders EXCEPT ![r] = "recording"],
                 !.mediaRecorderRef = r,
                 !.isRecording = TRUE,
                 !.timerRef = r,
                 !.timers = h.timers \cup {r},
                 !.requests = [h.requests EXCEPT ![r].status = "started"]]

\* startRecording after getUserMedia has rejected: the catch block.
AcquireFailedOf(h, r) ==
  [h EXCEPT !.error = "failed",
            !.streams = StopStreamRef(h),
            !.streamRef = NoId,
            !.previewStream = NoId,
            !.requests = [h.requests EXCEPT ![r].status = "failed"]]

\* stopRecording.
StopRecordingOf(h) ==
  IF h.mediaRecorderRef # NoId /\ h.recorders[h.mediaRecorderRef] = "recording"
  THEN [h EXCEPT !.activeRequestRef = NoId,
                 !.recorders = [h.recorders EXCEPT ![h.mediaRecorderRef] = "stopping"],
                 !.isRecording = FALSE,
                 !.timers = IF h.timerRef # NoId THEN h.timers \ {h.timerRef}
                            ELSE h.timers,
                 !.timerRef = NoId]
  ELSE [h EXCEPT !.activeRequestRef = NoId,
                 !.streams = StopStreamRef(h),
                 !.streamRef = NoId,
                 !.previewStream = IF h.streamRef # NoId THEN NoId ELSE h.previewStream,
                 !.isRecording = FALSE]

\* clearMedia.
ClearMediaOf(h) == [h EXCEPT !.mediaUrl = NoMedia, !.error = "none"]

\* The task queued by recorder.stop() of recorder r: ondataavailable pushes
\* the recorded data, onstop builds the blob and releases streamRef.
OnStopOf(h, r) ==
  LET chunks == Append(h.chunksRef, r)
  IN [h EXCEPT !.chunksRef = chunks,
               !.mediaUrl = [by |-> r, chunks |-> chunks],
               !.streams = StopStreamRef(h),
               !.streamRef = NoId,
               !.previewStream = NoId,
               !.recorders = [h.recorders EXCEPT ![r] = "inactive"]]

(***************************************************************************)
(* Stickers.  A recorded sticker is built when the recording is handed    *)
(* over (timestamp and the sticker list of that render are captured) and  *)
(* saved when the FileReader has converted its data.                      *)
(***************************************************************************)
\* url: the recording the sticker holds, where the model follows it.
NewSticker(t, kind) ==
  [id |-> t, type |-> kind, timestamp |-> t, pos |-> 0, url |-> NoId]

OpenVideoModal ==
  /\ UNCHANGED localVars
  /\ ToolbarUsable
  /\ showVideoModal' = TRUE
  /\ UNCHANGED <<appVars, mode, showColorPicker, showPinNameModal, newPinCoords,
                 connectStartNode, deleteTarget, pencilColor, popupPin, dataVars,
                 envVars, crashed>>
  /\ Observe("openVideoModal", NoId, "none", "none", FALSE, {})

CloseVideoModal ==
  /\ UNCHANGED localVars
  /\ Mounted
  /\ showVideoModal
  /\ showVideoModal' = FALSE
  /\ UNCHANGED <<appVars, mode, showColorPicker, showPinNameModal, newPinCoords,
                 connectStartNode, deleteTarget, pencilColor, popupPin, dataVars,
                 envVars, crashed>>
  /\ Observe("closeVideoModal", NoId, "none", "none", FALSE, {})

\* handleVideoConfirm: a click in the recorder modal.
VideoConfirm ==
  /\ UNCHANGED localVars
  /\ Mounted
  /\ showVideoModal
  /\ now < MaxClock
  /\ Cardinality(conversions) < MaxInFlight
  /\ now' = now + 1
  /\ conversions' = conversions \cup
       {[sticker |-> NewSticker(now + 1, "image"), base |-> stickers,
         from |-> "video", live |-> TRUE]}
  /\ UNCHANGED <<appVars, uiVars, dataVars, ls, crashed>>
  /\ Observe("handleVideoConfirm", now + 1, "sticker", "none", FALSE, {})

\* The audio recorder of the board.  The microphone button of the toolbar:
\*   onClick={() => isAudioRecording ? stopAudio() : startAudio('audio')}
AudioStep(h, op, id) ==
  /\ recorder' = h
  /\ UNCHANGED <<appVars, uiVars, toolVars, viewVars, comparison, propertyList, marker,
                 dataVars, envVars, crashed>>
  /\ Observe(op, id, "recorder", "none", FALSE, {})

ToggleAudio ==
  /\ ToolbarUsable
  /\ IF recorder.isRecording
     THEN AudioStep(StopRecordingOf(recorder), "stopAudio", NoId)
     ELSE \E r \in FreeRequests(recorder) :
            /\ \A q \in FreeRequests(recorder) : r <= q
            /\ AudioStep(StartRecordingOf(recorder, r, "audio"), "startAudio", r)

\* The recording whose recorder a stopRecording call would stop now.
InProgress(h) ==
  IF h.mediaRecorderRef # NoId /\ h.recorders[h.mediaRecorderRef] = "recording"
  THEN {h.mediaRecorderRef} ELSE {}

\* The X button of the recording toast: stopAudio(); clearAudio();
\* cancelled remembers which recordings the user cancelled.
CancelAudio ==
  /\ Mounted
  /\ recorder.isRecording
  /\ AudioStep([ClearMediaOf(StopRecordingOf(recorder))
                  EXCEPT !.cancelled = recorder.cancelled \cup InProgress(recorder)],
               "cancelAudio", NoId)

AudioAcquired(r) ==
  /\ Mounted
  /\ recorder.requests[r].status = "pending"
  /\ AudioStep(AcquiredOf(recorder, r), "getUserMedia.resolve", r)

AudioAcquireFailed(r) ==
  /\ Mounted
  /\ recorder.requests[r].status = "pending"
  /\ AudioStep(AcquireFailedOf(recorder, r), "getUserMedia.reject", r)

\* The audioUrl effect for the media URL of recording url, at time t: the
\* sticker and the sticker list of this render go to the conversion.
AudioUrlEffect(t, url) ==
  /\ Mounted
  /\ t \in {now, now + 1} \ {0}
  /\ t <= MaxClock
  /\ Cardinality(conversions) < MaxInFlight
  /\ now' = t
  /\ conversions' = conversions \cup
       {[sticker |-> [NewSticker(t, "audio") EXCEPT !.url = url], base |-> stickers,
         from |-> "audio", live |-> TRUE]}
  /\ UNCHANGED <<appVars, uiVars, dataVars, ls, crashed>>
  /\ Observe("audioUrlEffect", t, "sticker", "none", FALSE, {})

\* The stop task of recorder r of the board's hook, and the audioUrl effect
\* that the new media URL triggers.
AudioStopped(r, t) ==
  /\ recorder.recorders[r] = "stopping"
  /\ recorder' = OnStopOf(recorder, r)
  /\ UNCHANGED <<toolVars, viewVars, comparison, propertyList, marker>>
  /\ AudioUrlEffect(t, r)

\* The audioUrl effect: runs after the recorder's stop event, possibly in
\* the same millisecond as the event before it.
AudioRecorded(t) ==
  /\ UNCHANGED localVars
  /\ AudioUrlEffect(t, NoId)

\* reader.onloadend: saveStickers([...stickers, newSticker]) with the list
\* captured at hand-over, then for an audio sticker clearAudio().  The
\* setters of an unmounted board do nothing.
ConversionDone(c, fails) ==
  /\ UNCHANGED <<toolVars, viewVars, comparison, propertyList, marker>>
  /\ c \in conversions
  /\ ~crashed
  /\ conversions' = conversions \ {c}
  /\ LET w == SaveList(ls, KeyStickers, stickers, Append(c.base, c.sticker), fails)
     IN /\ ls' = w.ls
        /\ stickers' = IF c.live THEN w.list ELSE stickers
        /\ showVideoModal' = IF c.live /\ c.from = "video" /\ ~w.threw
                             THEN FALSE ELSE showVideoModal
        /\ recorder' = IF c.live /\ c.from = "audio" /\ ~w.threw
                       THEN ClearMediaOf(recorder) ELSE recorder
        /\ UNCHANGED <<appVars, mode, showColorPicker, showPinNameModal,
                       newPinCoords, connectStartNode, deleteTarget, pencilColor,
                       popupPin, paths, lifePins, yarnConnections, now, crashed>>
        /\ Observe("reader.onloadend", c.sticker.id, "sticker", "none", w.threw, w.rejected)

\* updateStickerPosition, from the end of a sticker drag.
MoveSticker(id, fails) ==
  /\ UNCHANGED localVars
  /\ BoardFree
  /\ id \in Ids(stickers)
  /\ LET moved == [i \in 1..Len(stickers) |->
                     IF stickers[i].id = id
                     THEN [stickers[i] EXCEPT !.pos = 1 - stickers[i].pos]
                     ELSE stickers[i]]
         w == SaveList(ls, KeyStickers, stickers, moved, fails)
     IN /\ ls' = w.ls
        /\ stickers' = w.list
        /\ UNCHANGED <<appVars, uiVars, paths, lifePins, yarnConnections, now,
                       conversions, crashed>>
        /\ Observe("updateStickerPosition", id, "sticker", "none", w.threw, w.rejected)

\* deleteSticker.
DeleteSticker(id, fails) ==
  /\ UNCHANGED localVars
  /\ BoardFree
  /\ id \in Ids(stickers)
  /\ LET w == SaveList(ls, KeyStickers, stickers,
                       SelectSeq(stickers, LAMBDA q : q.id # id), fails)
     IN /\ ls' = w.ls
        /\ stickers' = w.list
        /\ UNCHANGED <<appVars, uiVars, paths, lifePins, yarnConnections, now,
                       conversions, crashed>>
        /\ Observe("deleteSticker", id, "sticker", "none", w.threw, w.rejected)

(***************************************************************************)
(* Undo.                                                                   *)
(***************************************************************************)
\* Which list handleUndo shortens: "none", "path" or "sticker".
UndoChoiceOlder(ps, ss) ==
  IF ps = <<>> /\ ss = <<>> THEN "none"
  ELSE IF ps # <<>> /\ (ss = <<>> \/ Last(ps).timestamp < Last(ss).timestamp)
  THEN "path"
  ELSE "sticker"

UndoChoice(ps, ss) ==
  IF ps = <<>> /\ ss = <<>> THEN "none"
  ELSE IF ps # <<>> /\ (ss = <<>> \/ Last(ps).timestamp > Last(ss).timestamp)
  THEN "path"
  ELSE "sticker"

\* handleUndo.  The button is rendered while a path or a sticker exists;
\* the handler itself returns at once when both lists are empty.
Undo(fails) ==
  /\ UNCHANGED localVars
  /\ ToolbarUsable
  /\ UNCHANGED <<appVars, uiVars, lifePins, yarnConnections, now, conversions,
                 crashed>>
  /\ LET choice == UndoChoice(paths, stickers)
         wp == SaveList(ls, KeyPaths, paths, ButLast(paths), fails)
         ws == SaveList(ls, KeyStickers, stickers, ButLast(stickers), fails)
     IN /\ CASE choice = "path" ->
                  /\ ls' = wp.ls
                  /\ paths' = wp.list
                  /\ UNCHANGED stickers
                  /\ uncaught' = wp.threw
                  /\ rejected' = wp.rejected
                  /\ last' = [op |-> "handleUndo", id |-> Last(paths).id,
                              type |-> "path", delta |-> 0, reset |-> ResetInStep]
             [] choice = "sticker" ->
                  /\ ls' = ws.ls
                  /\ stickers' = ws.list
                  /\ UNCHANGED paths
                  /\ uncaught' = ws.threw
                  /\ rejected' = ws.rejected
                  /\ last' = [op |-> "handleUndo", id |-> Last(stickers).id,
                              type |-> "sticker", delta |-> 0, reset |-> ResetInStep]
             [] OTHER ->
                  /\ UNCHANGED <<ls, paths, stickers>>
                  /\ uncaught' = FALSE
                  /\ rejected' = {}
                  /\ last' = [op |-> "handleUndo", id |-> NoId,
                              type |-> "none", delta |-> 0, reset |-> ResetInStep]
  /\ alertMsg' = "none"

(***************************************************************************)
(* YarnConnectionItem.updateGeometry: the sagging curve of a connection    *)
(* and its distance label.  Pixel lengths are counted in twentieths of a   *)
(* pixel (0.15 = 3/20), distances in tenths of a metre.                    *)
(***************************************************************************)
PxScale == 20
MetreScale == 10

Min(a, b) == IF a < b THEN a ELSE b

\* The layer points (whole pixels, latLngToLayerPoint rounds) of the two
\* offset endpoints: a start and the vector to the end, chosen so that
\* the distance is a whole number of pixels.
StartPoints == {<<0, 0>>, <<3, -7>>}
EndVectors == {<<0, 0>>, <<1, 0>>, <<0, -7>>, <<100, 0>>, <<-60, 80>>, <<7, 24>>,
               <<533, 0>>, <<0, 534>>, <<-280, 960>>, <<600, 800>>, <<-1000, 0>>,
               <<3000, 4000>>}
\* The distances map.distance returns, in tenths of a metre.
Distances == (0..6) \cup (9994..10006) \cup (10498..10502)
               \cup {12345, 25000, 99949, 99951}

\* Point.distanceTo: sqrt(dx*dx + dy*dy), in pixels.
RECURSIVE Sqrt(_, _, _)
Sqrt(square, low, high) ==
  IF low = high THEN low
  ELSE LET mid == (low + high + 1) \div 2
       IN IF mid * mid <= square THEN Sqrt(square, mid, high)
          ELSE Sqrt(square, low, mid - 1)

DistanceTo(a, b) ==
  LET dx == b[1] - a[1]
      dy == b[2] - a[2]
  IN Sqrt(dx * dx + dy * dy, 0, MaxPixelDist)

\* const sagPx = Math.min(pixelDist * 0.15, 80), in twentieths of a pixel.
SagUncapped(pixelDist) == 3 * pixelDist

SagPx(pixelDist) == Min(3 * pixelDist, 80 * PxScale)

\* startPx.add(endPx).divideBy(2), in twentieths of a pixel.
MidPx(startPx, endPx) ==
  <<(PxScale \div 2) * (startPx[1] + endPx[1]), (PxScale \div 2) * (startPx[2] + endPx[2])>>

\* L.point(midPx.x, midPx.y + sagPx).
ControlPx(startPx, endPx) ==
  LET midPx == MidPx(startPx, endPx)
  IN <<midPx[1], midPx[2] + SagPx(DistanceTo(startPx, endPx))>>

\* Math.round(d): the nearest whole number, halves upwards (d >= 0).
MathRound(d) == (d + MetreScale \div 2) \div MetreScale

\* (d/1000).toFixed(1): the tenths of a kilometre that one decimal shows.
\* A distance half-way between two tenths goes to either, following the
\* binary value of the quotient; every other distance goes to the nearest.
ToFixed1(d) ==
  LET tenth == 100 * MetreScale
      down == d \div tenth
  IN IF d % tenth = tenth \div 2 THEN {down, down + 1}
     ELSE {(d + tenth \div 2) \div tenth}

\* d > 1000 ? `${(d/1000).toFixed(1)}km` : `${Math.round(d)}m`
\* The label as the number shown, its decimals and its suffix.
UsesKilometres(d) == d > 1000 * MetreScale

DistTexts(d) ==
  IF UsesKilometres(d)
  THEN {[shown |-> t, decimals |-> 1, suffix |-> "km"] : t \in ToFixed1(d)}
  ELSE {[shown |-> MathRound(d), decimals |-> 0, suffix |-> "m"]}

\* YarnOverlay renders an item for a connection whose two ends exist.
Rendered(c) == c.propertyId \in Ids(properties) /\ c.pinId \in Ids(lifePins)

\* The effect of YarnConnectionItem (mount, new property or pin, zoomend)
\* runs updateGeometry on the endpoints and the distance the map gives.
UpdateGeometry(startPx, endPx, d) ==
  /\ Mounted
  /\ \E i \in 1..Len(yarnConnections) : Rendered(yarnConnections[i])
  /\ \E text \in DistTexts(d) :
       geometry' = [startPx |-> startPx, endPx |-> endPx, d |-> d, ran |-> TRUE,
                    controlPx |-> ControlPx(startPx, endPx),
                    distText |-> text]
  /\ UNCHANGED <<appVars, uiVars, toolVars, images, sideVars, dataVars, envVars, crashed>>
  /\ Observe("updateGeometry", NoId, "yarn", "none", FALSE, {})

(***************************************************************************)
(* Numbers.  Angles are JavaScript numbers: binary floating point, every   *)
(* sum and difference rounded to the nearest number, ties to the even      *)
(* significand.  An angle is counted in units of 1/UnitsPerDegree degree,  *)
(* the finest step kept; a number is a whole count of units whose          *)
(* significand fits MantissaBits bits, so that, as in binary64, a small    *)
(* angle is kept more finely than 45 or 360 degrees are.                   *)
(***************************************************************************)
UnitsPerDegree == 2 ^ (MantissaBits - 5)
Degrees(n) == n * UnitsPerDegree

\* The spacing of the numbers around a magnitude.
RECURSIVE Ulp(_)
Ulp(a) == IF a < 2 ^ MantissaBits THEN 1 ELSE 2 * Ulp(a \div 2)

\* The number nearest to an exact result, ties to even.
Round(x) ==
  LET a == IF x < 0 THEN -x ELSE x
      u == Ulp(a)
      q == a \div u
      r == a % u
      n == IF 2 * r > u \/ (2 * r = u /\ q % 2 = 1) THEN q + 1 ELSE q
  IN IF x < 0 THEN -(n * u) ELSE n * u

IsNumber(x) == Round(x) = x

\* a % n of JavaScript: exact, with the sign of a.
JsMod(a, n) == IF a < 0 THEN -((-a) % n) ELSE a % n

(***************************************************************************)
(* PropertyDetailView, scrapbook mode: the TransformableImage components.  *)
(***************************************************************************)
\* PropertyDetailView is rendered in the list view while a property is
\* selected.
DetailOpen == view = "list" /\ ~crashed /\ selectedPropertyId \in Ids(properties)

InteractionModes == {"DRAG", "RESIZE", "ROTATE"}

\* const active = isSelected || isHovered: the resize and rotate handles
\* are rendered only then, the move zone always.
Active(img) == img.isSelected \/ img.isHovered

\* The pointer is up: no image is in an interaction.
PointerFree == \A j \in Images : images[j].interactionMode = "IDLE"

\* Math.atan2(...) * (180 / Math.PI): the pointer angles explored, numbers
\* of at most 48 degrees that lie next to a multiple of 45 degrees.
Angles ==
  {a \in Degrees(-48)..Degrees(48) :
     /\ IsNumber(a)
     /\ (a >= Degrees(-6) /\ a <= Degrees(6)) \/ a >= Degrees(30) \/ a <= Degrees(-30)}
StartAngles == {0, Degrees(180)}
\* The rotations of an image from which a rotation is explored.
Rotations == {0, Degrees(45), Degrees(-45)}

\* Every write of a media item goes through updateMediaItem and
\* App.handleUpdateProperty to the persistence effect of the properties.
SaveMedia(op, i, type) ==
  LET saved == SaveProperties(ls, properties, {})
  IN /\ ls' = saved.ls
     /\ crashed' = saved.threw
     /\ UNCHANGED <<appVars, uiVars, toolVars, geometry, sideVars, dataVars, now, conversions>>
     /\ Observe(op, i, type, saved.alert, saved.threw, saved.rejected)

\* handlePointerDown on the move zone or on a handle of image i:
\* stopPropagation keeps the event from the window, where the click-outside
\* listeners of the other images wait.
ImagePointerDown(i, m, angle) ==
  /\ DetailOpen
  /\ PointerFree
  /\ m \in {"RESIZE", "ROTATE"} => Active(images[i])
  /\ images' = [images EXCEPT ![i] =
                  [images[i] EXCEPT !.isSelected = TRUE,
                                    !.interactionMode = m,
                                    !.startRef = [rotation |-> images[i].rotation,
                                                  startAngle |-> angle],
                                    !.currentAngle = angle]]
  /\ SaveMedia("handlePointerDown", i, m)

\* A pointer-down that reaches the window (outside every image):
\* handleGlobalClick of each selected image deselects it.
PointerDownOutside ==
  /\ DetailOpen
  /\ PointerFree
  /\ \E j \in Images : images[j].isSelected
  /\ images' = [j \in Images |-> [images[j] EXCEPT !.isSelected = FALSE]]
  /\ UNCHANGED <<appVars, uiVars, toolVars, geometry, sideVars, dataVars, envVars, crashed>>
  /\ Observe("handleGlobalClick", NoId, "window", "none", FALSE, {})

\* handlePointerMove (ROTATE): the rotation shown while the pointer moves.
PreviewRotation(startRef, currentAngle) ==
  LET delta0 == Round(currentAngle - startRef.startAngle)
      delta1 == IF delta0 > Degrees(180) THEN Round(delta0 - Degrees(360)) ELSE delta0
      delta == IF delta1 < Degrees(-180) THEN Round(delta1 + Degrees(360)) ELSE delta1
      degrees == Round(startRef.rotation + delta)
      snap == Degrees(45)
      threshold == Degrees(5)
      remainder == JsMod(Round(JsMod(degrees, snap) + snap), snap)
      degrees1 == IF remainder < threshold THEN Round(degrees - remainder) ELSE degrees
  IN IF remainder > Round(snap - threshold)
     THEN Round(degrees1 + Round(snap - remainder)) ELSE degrees1

\* handlePointerUp (ROTATE): the rotation handed to onUpdate.
CommitRotation(startRef, currentAngle) ==
  LET d0 == Round(currentAngle - startRef.startAngle)
      d1 == IF d0 > Degrees(180) THEN Round(d0 - Degrees(360)) ELSE d0
      d2 == IF d1 < Degrees(-180) THEN Round(d1 + Degrees(360)) ELSE d1
      raw == Round(startRef.rotation + d2)
      remainder == JsMod(Round(JsMod(raw, Degrees(45)) + Degrees(45)), Degrees(45))
      low == IF remainder < Degrees(5) THEN Round(raw - remainder) ELSE raw
  IN IF remainder > Round(Degrees(45) - Degrees(5))
     THEN Round(low + Round(Degrees(45) - remainder)) ELSE low

\* let degrees = rotation + delta: the raw rotation before snapping.
RawRotation(startRef, currentAngle) ==
  LET delta0 == Round(currentAngle - startRef.startAngle)
      delta1 == IF delta0 > Degrees(180) THEN Round(delta0 - Degrees(360)) ELSE delta0
      delta == IF delta1 < Degrees(-180) THEN Round(delta1 + Degrees(360)) ELSE delta1
  IN Round(startRef.rotation + delta)

\* handlePointerMove of image i: in ROTATE the element's transform is set.
ImagePointerMove(i, angle) ==
  /\ DetailOpen
  /\ images[i].interactionMode # "IDLE"
  /\ images' = [images EXCEPT ![i] =
                  [images[i] EXCEPT
                     !.currentAngle = angle,
                     !.transform = IF images[i].interactionMode = "ROTATE"
                                   THEN PreviewRotation(images[i].startRef, angle)
                                   ELSE images[i].transform]]
  /\ UNCHANGED <<appVars, uiVars, toolVars, geometry, sideVars, dataVars, envVars, crashed>>
  /\ Observe("handlePointerMove", i, images[i].interactionMode, "none", FALSE, {})

\* handlePointerUp of image i: onUpdate commits the result, and the next
\* render shows the media's rotation.
ImagePointerUp(i, angle) ==
  /\ DetailOpen
  /\ images[i].interactionMode # "IDLE"
  /\ LET rotation == IF images[i].interactionMode = "ROTATE"
                     THEN CommitRotation(images[i].startRef, angle)
                     ELSE images[i].rotation
     IN images' = [images EXCEPT ![i] =
                     [images[i] EXCEPT !.currentAngle = angle,
                                       !.rotation = rotation,
                                       !.transform = rotation,
                                       !.interactionMode = "IDLE"]]
  /\ SaveMedia("handlePointerUp", i, images[i].interactionMode)

\* onMouseEnter / onMouseLeave of image i.
MouseEnter(i) ==
  /\ DetailOpen
  /\ ~images[i].isHovered
  /\ images' = [images EXCEPT ![i] = [images[i] EXCEPT !.isHovered = TRUE]]
  /\ UNCHANGED <<appVars, uiVars, toolVars, geometry, sideVars, dataVars, envVars, crashed>>
  /\ Observe("onMouseEnter", i, "image", "none", FALSE, {})

MouseLeave(i) ==
  /\ DetailOpen
  /\ images[i].isHovered
  /\ images' = [images EXCEPT ![i] = [images[i] EXCEPT !.isHovered = FALSE]]
  /\ UNCHANGED <<appVars, uiVars, toolVars, geometry, sideVars, dataVars, envVars, crashed>>
  /\ Observe("onMouseLeave", i, "image", "none", FALSE, {})

(***************************************************************************)
(* useMediaRecorder: the calls of its owner, the answers of the device and  *)
(* the stop tasks of its recorders.                                        *)
(***************************************************************************)
\* A step of the hook that touches nothing outside it.
HookStep(h, op, id) ==
  /\ recorder' = h
  /\ UNCHANGED <<appVars, uiVars, toolVars, viewVars, comparison, propertyList, marker,
                 dataVars, envVars, crashed>>
  /\ Observe(op, id, "recorder", "none", FALSE, {})

\* The owner of the hook calls startRecording, stopRecording, clearMedia.
StartRecording(type) ==
  /\ ~crashed
  /\ \E r \in FreeRequests(recorder) :
       /\ \A q \in FreeRequests(recorder) : r <= q
       /\ HookStep(StartRecordingOf(recorder, r, type), "startRecording", r)

StopRecording ==
  /\ ~crashed
  /\ HookStep(StopRecordingOf(recorder), "stopRecording", NoId)

ClearMedia ==
  /\ ~crashed
  /\ HookStep(ClearMediaOf(recorder), "clearMedia", NoId)

\* The device answers request r.
Acquired(r) ==
  /\ ~crashed
  /\ recorder.requests[r].status = "pending"
  /\ HookStep(AcquiredOf(recorder, r), "getUserMedia.resolve", r)

AcquireFailed(r) ==
  /\ ~crashed
  /\ recorder.requests[r].status = "pending"
  /\ HookStep(AcquireFailedOf(recorder, r), "getUserMedia.reject", r)

\* The stop task of recorder r runs, in a hook whose media URL nobody
\* watches with an effect (VideoRecorderModal).
RecorderStopped(r) ==
  /\ ~crashed
  /\ recorder.recorders[r] = "stopping"
  /\ HookStep(OnStopOf(recorder, r), "recorder.onstop", r)

(***************************************************************************)
(* App: switching views and the list view.                                 *)
(***************************************************************************)
\* FloatingNav -> 'list': MapBoard unmounts; callbacks of conversions in
\* flight keep the setters of the unmounted board.
SwitchToList ==
  /\ BoardFree
  /\ view' = "list"
  /\ UiInitial
  /\ paths' = <<>>
  /\ stickers' = <<>>
  /\ lifePins' = <<>>
  /\ yarnConnections' = <<>>
  /\ conversions' = {[c EXCEPT !.live = FALSE] : c \in conversions}
  /\ marker' = MarkersInitial
  /\ recorder' = HookInitial
  /\ UNCHANGED <<properties, selectedPropertyId, ls, now, crashed, viewVars,
                 comparison, propertyList>>
  /\ last' = [op |-> "setViewMode", id |-> NoId, type |-> "list", delta |-> 0, reset |-> ResetInStep]
  /\ alertMsg' = "none"
  /\ uncaught' = FALSE
  /\ rejected' = {}

\* FloatingNav -> 'map': a new MapBoard mounts from storage.
SwitchToMap(fails) ==
  /\ view = "list"
  /\ ~crashed
  /\ view' = "map"
  /\ UiInitial
  /\ LET b == MountBoard(ls, properties, fails)
     IN /\ paths' = b.paths
        /\ stickers' = b.stickers
        /\ lifePins' = b.lifePins
        /\ yarnConnections' = b.yarnConnections
        /\ ls' = b.ls
        /\ crashed' = b.threw
        /\ uncaught' = b.threw
        /\ rejected' = b.rejected
  /\ images' = Unmounted(images)
  /\ propertyList' = [propertyList EXCEPT !.activeCategory = AllCategories]
  /\ UNCHANGED <<properties, selectedPropertyId, now, conversions, geometry,
                 comparison, marker, recorder>>
  /\ last' = [op |-> "setViewMode", id |-> NoId, type |-> "map", delta |-> 0, reset |-> ResetInStep]
  /\ alertMsg' = "none"

\* PropertyList.onSelect / PropertyDetailView.onBack.
ListSelect(id) ==
  /\ images' = Unmounted(images)
  /\ propertyList' = [propertyList EXCEPT !.activeCategory = AllCategories]
  /\ UNCHANGED <<toolVars, geometry, comparison, marker, recorder>>
  /\ view = "list"
  /\ ~crashed
  /\ id \in Ids(properties) \cup {NoId}
  /\ id # selectedPropertyId
  /\ selectedPropertyId' = id
  /\ UNCHANGED <<view, properties, uiVars, dataVars, envVars, crashed>>
  /\ Observe("setSelectedPropertyId", id, "property", "none", FALSE, {})

\* PropertyDetailView.onDelete -> App.handleDeleteProperty.
ListDelete(fails) ==
  /\ images' = ImagesInitial
  /\ propertyList' = [propertyList EXCEPT !.activeCategory = AllCategories]
  /\ UNCHANGED <<toolVars, geometry, comparison, marker, recorder>>
  /\ view = "list"
  /\ ~crashed
  /\ selectedPropertyId \in Ids(properties)
  /\ properties' = RemoveProperty(properties, selectedPropertyId)
  /\ selectedPropertyId' = SelectionAfterDelete(selectedPropertyId, selectedPropertyId)
  /\ UNCHANGED <<view, uiVars, dataVars, now, conversions>>
  /\ LET saved == SaveProperties(ls, properties', fails)
     IN /\ ls' = saved.ls
        /\ crashed' = saved.threw
        /\ Observe("PropertyDetailView.onDelete", selectedPropertyId, "property",
                   saved.alert, saved.threw, saved.rejected)

(***************************************************************************)
(* PropertyList: category tabs and drag-to-reorder.  The category of a     *)
(* property (Property.category) is kept in propertyList.category.          *)
(***************************************************************************)
\* The default categories of App: '全部', '意向', '已看'.
Categories == {AllCategories, "yixiang", "yikan"}

\* The property list is on screen.
ListOpen == view = "list" /\ ~crashed /\ ~DetailOpen

\* filteredProperties
FilteredProperties(props, active, category) ==
  IF active = AllCategories THEN props
  ELSE SelectSeq(props, LAMBDA q : category[q.id] = active)

\* The list after the item at position i was dragged over its neighbour.
Swapped(list, i) ==
  [k \in 1..Len(list) |-> IF k = i THEN list[i + 1]
                          ELSE IF k = i + 1 THEN list[i]
                          ELSE list[k]]

\* onReorder={setProperties}: the new order becomes the properties.
SetProperties(props, newOrder) == newOrder

\* A category tab: onClick={() => setActiveCategory(cat)}.
SelectCategory(cat) ==
  /\ ListOpen
  /\ cat # propertyList.activeCategory
  /\ propertyList' = [propertyList EXCEPT !.activeCategory = cat]
  /\ UNCHANGED <<appVars, uiVars, toolVars, viewVars, comparison, marker, recorder,
                 dataVars, envVars, crashed>>
  /\ Observe("setActiveCategory", NoId, cat, "none", FALSE, {})

\* handleMoveCategory -> App.handleUpdateProperty, followed by the
\* persistence effect of the properties.
MoveCategory(id, cat, fails) ==
  /\ ListOpen
  /\ id \in Ids(FilteredProperties(properties, propertyList.activeCategory,
                                   propertyList.category))
  /\ cat # AllCategories
  /\ propertyList' = [propertyList EXCEPT !.category[id] = cat]
  /\ UNCHANGED <<appVars, uiVars, toolVars, viewVars, comparison, marker, recorder,
                 dataVars, now, conversions, crashed>>
  /\ LET saved == SaveProperties(ls, properties, fails)
     IN /\ ls' = saved.ls
        /\ Observe("handleMoveCategory", id, "property", saved.alert, saved.threw,
                   saved.rejected)

\* Reorder.Group values={filteredProperties} onReorder={setProperties}: the
\* item at position i of the shown list is dragged over its neighbour.
Reorder(i, fails) ==
  /\ ListOpen
  /\ LET shown == FilteredProperties(properties, propertyList.activeCategory,
                                     propertyList.category)
     IN /\ i \in 1..(Len(shown) - 1)
        /\ properties' = SetProperties(properties, Swapped(shown, i))
  /\ UNCHANGED <<view, selectedPropertyId, uiVars, toolVars, viewVars, comparison,
                 propertyList, marker, recorder, dataVars, now, conversions, crashed>>
  /\ LET saved == SaveProperties(ls, properties', fails)
     IN /\ ls' = saved.ls
        /\ Observe("onReorder", i, "property", saved.alert, saved.threw, saved.rejected)

(***************************************************************************)
(* geminiService.analyzeProperties and the comparison view.                *)
(***************************************************************************)
\* getAI(): new GoogleGenAI({ apiKey: process.env.API_KEY }) returns a
\* client or throws (no process object in the page, no key in the build).
Clients == {"client", "throws"}

\* generateContent: a text, an empty text, or a failure of the service.
Replies == {"text", "empty", "error"}

\* analyzeProperties(properties) with n properties: whether its promise
\* rejects, what it resolves to, and how many requests it sends.
AnalyzeProperties(n, client, reply) ==
  IF n < 2
  THEN [rejects |-> FALSE, result |-> "atLeastTwo", requests |-> 0]
  ELSE IF client = "throws"
  THEN [rejects |-> TRUE, result |-> "", requests |-> 0]
  ELSE [rejects |-> FALSE,
        result |-> CASE reply = "text" -> "text"
                     [] reply = "empty" -> "fallback"
                     [] OTHER -> "apology",
        requests |-> 1]

\* FloatingNav -> 'compare' from the map: MapBoard unmounts, ComparisonView
\* mounts.
SwitchToCompare ==
  /\ BoardFree
  /\ view' = "compare"
  /\ UiInitial
  /\ paths' = <<>>
  /\ stickers' = <<>>
  /\ lifePins' = <<>>
  /\ yarnConnections' = <<>>
  /\ conversions' = {[c EXCEPT !.live = FALSE] : c \in conversions}
  /\ marker' = MarkersInitial
  /\ recorder' = HookInitial
  /\ comparison' = ComparisonInitial
  /\ UNCHANGED <<properties, selectedPropertyId, ls, now, crashed, viewVars, propertyList>>
  /\ last' = [op |-> "setViewMode", id |-> NoId, type |-> "compare", delta |-> 0, reset |-> ResetInStep]
  /\ alertMsg' = "none"
  /\ uncaught' = FALSE
  /\ rejected' = {}

\* FloatingNav -> 'list' from the comparison: ComparisonView unmounts, and
\* the setters its pending handleAnalyze still holds do nothing.
CompareToList ==
  /\ view = "compare"
  /\ ~crashed
  /\ view' = "list"
  /\ comparison' = ComparisonInitial
  /\ UNCHANGED <<properties, selectedPropertyId, uiVars, toolVars, viewVars, propertyList,
                 marker, recorder, dataVars, envVars, crashed>>
  /\ Observe("setViewMode", NoId, "list", "none", FALSE, {})

\* A step of ComparisonView.
CompareStep(c, op, id, alert, threw) ==
  /\ comparison' = c
  /\ UNCHANGED <<appVars, uiVars, toolVars, viewVars, propertyList, marker, recorder,
                 dataVars, envVars, crashed>>
  /\ Observe(op, id, "property", alert, threw, {})

\* toggleSelection, from a card of the selection screen.
MaxSelected == 4

ToggleSelection(id) ==
  /\ view = "compare"
  /\ ~crashed
  /\ ~comparison.isComparing
  /\ id \in Ids(properties)
  /\ IF id \in comparison.selectedIds
     THEN CompareStep([comparison EXCEPT !.selectedIds = @ \ {id}],
                      "toggleSelection", id, "none", FALSE)
     ELSE IF Cardinality(comparison.selectedIds) >= MaxSelected
     THEN CompareStep(comparison, "toggleSelection", id, "max4", FALSE)
     ELSE CompareStep([comparison EXCEPT !.selectedIds = @ \cup {id}],
                      "toggleSelection", id, "none", FALSE)

\* The start button: disabled={selectedIds.length < 2}.
StartComparing ==
  /\ view = "compare"
  /\ ~crashed
  /\ ~comparison.isComparing
  /\ Cardinality(comparison.selectedIds) >= 2
  /\ CompareStep([comparison EXCEPT !.isComparing = TRUE], "setIsComparing", NoId,
                 "none", FALSE)

\* The back button: setIsComparing(false); setAnalysis('').
Back ==
  /\ view = "compare"
  /\ ~crashed
  /\ comparison.isComparing
  /\ CompareStep([comparison EXCEPT !.isComparing = FALSE, !.analysis = ""],
                 "back", NoId, "none", FALSE)

\* handleAnalyze up to its await: setLoading(true), then analyzeProperties
\* runs to its own await or to the exception of getAI, which rejects the
\* promise of handleAnalyze.  The button shows while !analysis && !loading.
HandleAnalyze(client) ==
  /\ view = "compare"
  /\ ~crashed
  /\ comparison.isComparing
  /\ comparison.analysis = ""
  /\ ~comparison.loading
  /\ LET n == Cardinality(comparison.selectedIds \cap Ids(properties))
         a == AnalyzeProperties(n, client, "text")
     IN CompareStep([comparison EXCEPT !.loading = TRUE,
                                       !.pending = ~a.rejects,
                                       !.requests = a.requests],
                    "handleAnalyze", NoId, "none", a.rejects)

\* The service answers: analyzeProperties resolves and handleAnalyze
\* continues with setAnalysis(result); setLoading(false).
ServiceAnswers(reply) ==
  /\ view = "compare"
  /\ ~crashed
  /\ comparison.pending
  /\ LET n == Cardinality(comparison.selectedIds \cap Ids(properties))
         a == AnalyzeProperties(n, "client", reply)
     IN CompareStep([comparison EXCEPT !.analysis = a.result,
                                       !.loading = FALSE,
                                       !.pending = FALSE],
                    "analyzeProperties", NoId, "none", FALSE)

(***************************************************************************)
(* The environment: the stored text of a key is replaced from outside the *)
(* running page (site data cleared, another tab, an older build), to be   *)
(* read by the next load.                                                  *)
(***************************************************************************)
SampleBoard ==
  [k \in Keys |->
     CASE k = KeyProperties -> <<[id |-> 1, rating |-> 0]>>
       [] k = KeyLifePins -> <<[id |-> 2, name |-> "gongsi"]>>
       [] k = KeyYarns -> <<[id |-> 3, propertyId |-> 1, pinId |-> 2]>>
       [] k = KeyPaths -> <<[id |-> 1, coords |-> <<1, 2>>, color |-> "#50B748",
                            timestamp |-> 1]>>
       [] OTHER -> <<NewSticker(2, "audio")>>]

StoredTexts(k) == {Missing, EmptyText, Garbage, JSONstringify(SampleBoard[k])}

StorageEdited(k, text) ==
  /\ UNCHANGED localVars
  /\ ls[k] # text
  /\ ls' = [ls EXCEPT ![k] = text]
  /\ UNCHANGED <<appVars, uiVars, dataVars, now, conversions, crashed>>
  /\ Observe("storage", NoId, k, "none", FALSE, {})

(***************************************************************************)
(* The next-state relations.                                               *)
(***************************************************************************)
NodeIds == 1..MaxClock

\* The sets of keys whose writes the browser rejects in a step: none when
\* storage has room, any subset of the keys written when quota is short.
Fails(quota, keys) == IF quota THEN SUBSET keys ELSE {{}}

\* Mode controller and clicks on the empty map.
ModeSteps ==
  \/ ToolbarBrowse
  \/ \E tool \in {"add_pin", "add_life_pin", "connect-line", "eraser"} :
       ToolbarToggle(tool)
  \/ ToolbarPencil
  \/ MapClick

\* Creating properties and life pins, on a board that shows at most n of
\* each and whose clock stays within t.
NodeSteps(quota, n, t) ==
  \/ \E name \in PinNames, f \in Fails(quota, {KeyLifePins}) :
       Len(lifePins) < n /\ ConfirmPinName(name, f) /\ now' <= t
  \/ CancelPinName
  \/ \E f \in Fails(quota, {KeyProperties, KeyYarns}) :
       Len(properties) < n /\ ConfirmAddPin(f) /\ now' <= t
  \/ CancelAddPin

\* Clicks on markers and on yarn connections.
ConnectSteps(quota, t) ==
  \/ \E id \in NodeIds, f \in Fails(quota, {KeyYarns}) :
       ClickProperty(id, f) /\ now' <= t
  \/ \E id \in NodeIds, f \in Fails(quota, {KeyYarns}) :
       ClickPin(id, f) /\ now' <= t
  \/ \E id \in NodeIds, f \in Fails(quota, {KeyYarns}) : DeleteConnection(id, f)

\* The popup of a life pin.
PopupSteps(quota, t) ==
  \/ \E id \in NodeIds, f \in Fails(quota, {KeyYarns}) :
       DblClickPin(id, f) /\ now' <= t
  \/ \E id \in NodeIds : PopupDeletePin(id)

\* Deleting properties and life pins, and the memo drawer.
DeleteSteps(quota) ==
  \/ \E id \in NodeIds : RequestDeleteProperty(id)
  \/ CancelDelete
  \/ \E f \in Fails(quota, {KeyProperties, KeyLifePins, KeyYarns}) : ConfirmDelete(f)
  \/ DrawerClose
  \/ \E f \in Fails(quota, {KeyProperties, KeyYarns}) : DrawerDelete(f)

\* Room for one more path or sticker on a board that shows at most n.
Room(n) == Len(paths) + Len(stickers) + Cardinality(conversions) < n

\* Freehand paths.
PathSteps(quota, n, t) ==
  \/ \E coords \in Strokes, f \in Fails(quota, {KeyPaths}) :
       Room(n) /\ DrawPath(coords, f) /\ now' <= t
  \/ \E id \in NodeIds, f \in Fails(quota, {KeyPaths}) : ErasePath(id, f)

\* The video recorder modal.
VideoSteps(n, t) ==
  \/ OpenVideoModal
  \/ CloseVideoModal
  \/ Room(n) /\ VideoConfirm /\ now' <= t

\* Stickers.
StickerSteps(quota, n, t) ==
  \/ \E u \in NodeIds : Room(n) /\ AudioRecorded(u) /\ now' <= t
  \/ \E c \in conversions, f \in Fails(quota, {KeyStickers}) : ConversionDone(c, f)
  \/ \E id \in NodeIds, f \in Fails(quota, {KeyStickers}) : MoveSticker(id, f)
  \/ \E id \in NodeIds, f \in Fails(quota, {KeyStickers}) : DeleteSticker(id, f)

\* View switches, the list view and page reloads.
AppSteps(quota) ==
  \/ SwitchToList
  \/ \E f \in Fails(quota, {KeyLifePins, KeyYarns}) : SwitchToMap(f)
  \/ \E id \in 0..MaxClock : ListSelect(id)
  \/ \E f \in Fails(quota, {KeyProperties}) : ListDelete(f)
  \/ \E f \in Fails(quota, {KeyProperties, KeyLifePins, KeyYarns}) : Reload(f)

\* The whole board with enough storage (the video recorder modal, which
\* hands its recordings to the same conversion as the audio recorder, the
\* colour picker and the renaming of life pins are left to the
\* specifications of the single tools below).
Next ==
  \/ ModeSteps
  \/ NodeSteps(FALSE, MaxBoardNodes, MaxBoardClock)
  \/ ConnectSteps(FALSE, MaxBoardClock)
  \/ PopupSteps(FALSE, MaxBoardClock)
  \/ DeleteSteps(FALSE)
  \/ PathSteps(FALSE, MaxBoardAnnotations, MaxBoardClock)
  \/ StickerSteps(FALSE, MaxBoardAnnotations, MaxBoardClock)
  \/ Undo({})
  \/ AppSteps(FALSE)

Spec == Init /\ [][Next]_vars

\* The map board without its annotation tools.
NextYarn ==
  \/ ModeSteps
  \/ NodeSteps(FALSE, MaxClock, MaxClock)
  \/ ConnectSteps(FALSE, MaxClock)
  \/ PopupSteps(FALSE, MaxClock)
  \/ DeleteSteps(FALSE)
  \/ AppSteps(FALSE)

SpecYarn == Init /\ [][NextYarn]_vars

\* The annotation tools alone, on a board without properties and pins.
NextAnnotation ==
  \/ ToolbarBrowse
  \/ ToolbarToggle("eraser")
  \/ ToolbarPencil
  \/ PathSteps(FALSE, MaxAnnotations, MaxAnnotationClock)
  \/ VideoSteps(MaxAnnotations, MaxAnnotationClock)
  \/ StickerSteps(FALSE, MaxAnnotations, MaxAnnotationClock)
  \/ Undo({})
  \/ SwitchToList
  \/ SwitchToMap({})
  \/ Reload({})

SpecAnnotation == Init /\ [][NextAnnotation]_vars

\* Loading: the stored texts change between loads of the page and mounts
\* of the board.
NextLoad ==
  \/ \E k \in Keys : \E text \in StoredTexts(k) : StorageEdited(k, text)
  \/ SwitchToList
  \/ SwitchToMap({})
  \/ Reload({})

SpecLoad == Init /\ [][NextLoad]_vars

\* The writers of the five collections when the browser may reject any
\* write for lack of quota.
NextQuota ==
  \/ ModeSteps
  \/ NodeSteps(TRUE, MaxBoardNodes, MaxBoardClock)
  \/ ConnectSteps(TRUE, MaxBoardClock)
  \/ DeleteSteps(TRUE)
  \/ PathSteps(TRUE, MaxBoardAnnotations, MaxBoardClock)
  \/ StickerSteps(TRUE, MaxBoardAnnotations, MaxBoardClock)
  \/ \E f \in Fails(TRUE, {KeyPaths, KeyStickers}) : Undo(f)
  \/ SwitchToList
  \/ \E f \in Fails(TRUE, {KeyLifePins, KeyYarns}) : SwitchToMap(f)
  \/ \E id \in NodeIds : ListSelect(id)
  \/ \E f \in Fails(TRUE, {KeyProperties}) : ListDelete(f)

SpecQuota == Init /\ [][NextQuota]_vars

\* The life pins alone: placing, renaming and deleting them.
NextPins ==
  \/ ToolbarBrowse
  \/ \E tool \in {"add_life_pin", "connect-line", "eraser"} : ToolbarToggle(tool)
  \/ MapClick
  \/ \E name \in PinNames : ConfirmPinName(name, {}) /\ now' <= MaxAnnotationClock
  \/ CancelPinName
  \/ \E id \in NodeIds : ClickPin(id, {})
  \/ PopupSteps(FALSE, MaxAnnotationClock)
  \/ \E id \in NodeIds, name \in NewNames : RenamePin(id, name, {})
  \/ CancelDelete
  \/ ConfirmDelete({})
  \/ SwitchToList
  \/ SwitchToMap({})

SpecPins == Init /\ [][NextPins]_vars

\* The pencil with its colour picker, the eraser and the mode controller.
NextPencil ==
  \/ ModeSteps
  \/ CancelPinName
  \/ CancelAddPin
  \/ \E c \in PENCIL_COLORS : PickColor(c)
  \/ PathSteps(FALSE, MaxAnnotations, MaxAnnotationClock)
  \/ Undo({})

SpecPencil == Init /\ [][NextPencil]_vars

\* The freehand recorder and the eraser: strokes point by point, hovering
\* and clicking paths.
NextDraw ==
  \/ ToolbarBrowse
  \/ ToolbarToggle("eraser")
  \/ ToolbarPencil
  \/ \E c \in PENCIL_COLORS : PickColor(c)
  \/ \E pt \in Points : Room(MaxAnnotations) /\ PointerDown(pt)
  \/ \E pt \in Points : PointerMove(pt)
  \/ PointerUp({}) /\ now' <= MaxDrawClock
  \/ \E id \in NodeIds : ErasePath(id, {})
  \/ \E id \in NodeIds : HoverPath(id)
  \/ UnhoverPath
  \/ \E id \in NodeIds : ClickInactivePath(id)
  \/ Undo({})

SpecDraw == Init /\ [][NextDraw]_vars

\* Properties from the map pin to the memo drawer: creating, selecting,
\* rating and deleting them.
NextRating ==
  \/ ToolbarBrowse
  \/ ToolbarToggle("add_pin")
  \/ MapClick
  \/ /\ Len(properties) < MaxRatedProperties
     /\ ConfirmAddPin({})
     /\ now' <= MaxAnnotationClock
  \/ CancelAddPin
  \/ \E id \in NodeIds : ClickProperty(id, {})
  \/ \E star \in Stars : RateProperty(star, {})
  \/ DeleteSteps(FALSE)
  \/ SwitchToList
  \/ SwitchToMap({})
  \/ Reload({})

SpecRating == Init /\ [][NextRating]_vars

\* The geometry of a connection: the application starts on a saved board
\* with one property, one life pin and the connection between them, and
\* the map hands updateGeometry endpoints and distances.
SavedBoard ==
  [k \in Keys |-> IF k \in {KeyProperties, KeyLifePins, KeyYarns}
                  THEN JSONstringify(SampleBoard[k]) ELSE Missing]

InitSaved == InitFrom(SavedBoard)

NextGeometry ==
  \E startPx \in StartPoints, v \in EndVectors, d \in Distances :
    UpdateGeometry(startPx, <<startPx[1] + v[1], startPx[2] + v[2]>>, d)

SpecGeometry == InitSaved /\ [][NextGeometry]_vars

\* The scrapbook of the one property of the saved board: selecting,
\* hovering and transforming its images.
NextScrapbook ==
  \/ SwitchToList
  \/ \E id \in {NoId, 1} : ListSelect(id)
  \/ \E i \in Images, m \in InteractionModes : ImagePointerDown(i, m, 0)
  \/ \E i \in Images : ImagePointerMove(i, 0)
  \/ \E i \in Images : ImagePointerUp(i, 0)
  \/ \E i \in Images : MouseEnter(i)
  \/ \E i \in Images : MouseLeave(i)
  \/ PointerDownOutside

SpecScrapbook == InitSaved /\ [][NextScrapbook]_vars

\* Rotating the first image of the scrapbook, from the rotations and over
\* the pointer angles explored.
NextRotate ==
  \/ SwitchToList
  \/ \E id \in {NoId, 1} : ListSelect(id)
  \/ MouseEnter(1)
  \/ \E angle \in StartAngles :
       images[1].rotation \in Rotations /\ ImagePointerDown(1, "ROTATE", angle)
  \/ \E angle \in Angles : ImagePointerMove(1, angle)
  \/ \E angle \in Angles : ImagePointerUp(1, angle)

SpecRotate == InitSaved /\ [][NextRotate]_vars

\* A recorder hook alone: its owner's calls, the device's answers and the
\* stop tasks of its recorders, in any order.
NextHook ==
  \/ \E type \in RecordingTypes : StartRecording(type)
  \/ StopRecording
  \/ ClearMedia
  \/ \E r \in Requests : Acquired(r)
  \/ \E r \in Requests : AcquireFailed(r)
  \/ \E r \in Requests : RecorderStopped(r)

SpecHook == Init /\ [][NextHook]_vars

\* The board with its audio recorder: recordings, their cancellation, the
\* conversions of the recorded stickers and the sticker edits between them.
NextAudio ==
  \/ ToggleAudio
  \/ CancelAudio
  \/ \E r \in Requests : AudioAcquired(r)
  \/ \E r \in Requests : AudioAcquireFailed(r)
  \/ \E r \in Requests, t \in 1..MaxClock : AudioStopped(r, t)
  \/ \E c \in conversions : ConversionDone(c, {})
  \/ \E id \in NodeIds : DeleteSticker(id, {})

SpecAudio == Init /\ [][NextAudio]_vars

\* A saved application with three properties, one of them tied to a life
\* pin.
SampleList ==
  [k \in Keys |->
     CASE k = KeyProperties -> <<[id |-> 1, rating |-> 0], [id |-> 2, rating |-> 0],
                                 [id |-> 3, rating |-> 0]>>
       [] k = KeyLifePins -> <<[id |-> 4, name |-> "gongsi"]>>
       [] k = KeyYarns -> <<[id |-> 5, propertyId |-> 3, pinId |-> 4]>>
       [] OTHER -> <<>>]

SavedList ==
  [k \in Keys |-> IF k \in {KeyProperties, KeyLifePins, KeyYarns}
                  THEN JSONstringify(SampleList[k]) ELSE Missing]

InitList == InitFrom(SavedList)

\* The comparison view over the saved properties.
NextCompare ==
  \/ SwitchToCompare
  \/ CompareToList
  \/ SwitchToMap({})
  \/ \E id \in NodeIds : ToggleSelection(id)
  \/ StartComparing
  \/ Back
  \/ \E client \in Clients : HandleAnalyze(client)
  \/ \E reply \in Replies : ServiceAnswers(reply)

SpecCompare == InitList /\ [][NextCompare]_vars

\* Dragging and clicking the property marker of the saved board, one
\* pointer at a time.
NextMarker ==
  \/ \E id \in NodeIds : DragStart(id)
  \/ \E id \in NodeIds : DragEnd(id, {})
  \/ \E id \in NodeIds : DragTimeout(id)
  \/ \E id \in NodeIds : MarkerClick(id, {})
  \/ \E id \in NodeIds : NoDrag /\ ClickPin(id, {})
  \/ NoDrag /\ ToolbarToggle("connect-line")
  \/ NoDrag /\ DrawerClose

SpecMarker == InitSaved /\ [][NextMarker]_vars

\* The list view over the saved properties: category tabs, moving a
\* property to a category, reordering, and back to the map.
NextList ==
  \/ SwitchToList
  \/ SwitchToMap({})
  \/ \E cat \in Categories : SelectCategory(cat)
  \/ \E id \in NodeIds, cat \in Categories : MoveCategory(id, cat, {})
  \/ \E i \in 1..MaxClock : Reorder(i, {})

SpecList == InitList /\ [][NextList]_vars

\* One pointer on the board: it draws strokes, is released on the map or
\* elsewhere, and uses the toolbar while it is up.
NextStroke ==
  \/ ~pressed /\ ToolbarBrowse
  \/ ~pressed /\ ToolbarPencil
  \/ ~pressed /\ ToolbarToggle("eraser")
  \/ \E c \in PENCIL_COLORS : ~pressed /\ PickColor(c)
  \/ \E pt \in Points : Room(MaxAnnotations) /\ PointerDown(pt)
  \/ \E pt \in Points : PointerMove(pt)
  \/ PointerUp({}) /\ now' <= MaxDrawClock
  \/ ReleaseOutside

SpecStroke == Init /\ [][NextStroke]_vars

(***************************************************************************)
(* Properties.                                                             *)
(***************************************************************************)
\* The (propertyId, pinId) pairs a list of yarn connections connects.
Pairs(yarns) == {<<yarns[i].propertyId, yarns[i].pinId>> : i \in 1..Len(yarns)}

YarnsOfOtherProperties(yarns, id) == SelectSeq(yarns, LAMBDA y : y.propertyId # id)
YarnsOfOtherPins(yarns, id) == SelectSeq(yarns, LAMBDA y : y.pinId # id)
YarnsOfOtherPairs(yarns, propId, pinId) ==
  SelectSeq(yarns, LAMBDA y : ~(y.propertyId = propId /\ y.pinId = pinId))

\* Every yarn connection of a mounted board references a listed property.
PropertySideIntegrity ==
  view = "map" =>
    \A i \in 1..Len(yarnConnections) :
       yarnConnections[i].propertyId \in Ids(properties)

\* A step that deletes a property on the map, or a life pin.
DeleteCascadeStep ==
  LET id == last'.id
  IN /\ (/\ last'.type = "property"
         /\ last'.op \in {"handleConfirmDelete", "MemoDrawer.onDelete"})
        => /\ id \in Ids(properties)
           /\ id \notin Ids(properties')
           /\ yarnConnections' = YarnsOfOtherProperties(yarnConnections, id)
     /\ (last'.type = "pin" /\ last'.op = "handleConfirmDelete")
        => /\ id \notin Ids(lifePins')
           /\ yarnConnections' = YarnsOfOtherPins(yarnConnections, id)

\* C1: deleting a property (from the map, the memo drawer or the list view,
\* once the board's cleanup effect has run) leaves no yarn connection with
\* its id, deleting a life pin through handleConfirmDelete leaves no yarn
\* connection with its id, and in both cases the connections of the other
\* entities stay, in order.
C1_DeleteCascades == []PropertySideIntegrity /\ [][DeleteCascadeStep]_vars

\* One property, one life pin, one connection; the property was deleted
\* and no connection is left.
C1_Witness ==
  /\ last.op = "handleConfirmDelete"
  /\ last.type = "property"
  /\ last.delta = -1
  /\ properties = <<>>
  /\ Len(lifePins) = 1
  /\ yarnConnections = <<>>

\* C2: in every settled state of the mounted board each yarn connection
\* references a listed property and a listed life pin.
C2_ReferentialIntegrity ==
  Mounted =>
    \A i \in 1..Len(yarnConnections) :
       /\ yarnConnections[i].propertyId \in Ids(properties)
       /\ yarnConnections[i].pinId \in Ids(lifePins)

\* The connect gesture: a click on the first node, then on the second.
ConnectGesture(s, first, second, t) ==
  HandleNodeClick(HandleNodeClick(s, first.id, first.type, t),
                  second.id, second.type, t)

\* The gesture on property p and life pin q, starting with the property
\* or with the pin.
PairGesture(s, p, q, propertyFirst, t) ==
  LET a == [id |-> p, type |-> "property"]
      b == [id |-> q, type |-> "pin"]
  IN IF propertyFirst THEN ConnectGesture(s, a, b, t) ELSE ConnectGesture(s, b, a, t)

\* C3: in connect-line mode with no pending start node, two connect
\* gestures on the same property and life pin (each in either order) leave
\* the set of connected pairs as it was, and the first of them changes it.
C3_ToggleTwice ==
  (BoardFree /\ mode = "connect-line" /\ connectStartNode = NoNode) =>
    \A p \in Ids(properties), q \in Ids(lifePins), o1 \in BOOLEAN, o2 \in BOOLEAN :
       LET s1 == PairGesture(CurrentNodeState, p, q, o1, now + 1)
           s2 == PairGesture(s1, p, q, o2, now + 2)
       IN /\ Pairs(s1.yarns) # Pairs(yarnConnections)
          /\ Pairs(s2.yarns) = Pairs(yarnConnections)
          /\ s2.start = NoNode

\* The gesture was performed twice on a pair: the second one removed the
\* connection the first one made, while another connection stays.
C3_Witness ==
  /\ BoardFree
  /\ mode = "connect-line"
  /\ connectStartNode = NoNode
  /\ last.op = "handleNodeClick"
  /\ last.delta = -1
  /\ Len(yarnConnections) = 1
  /\ Len(lifePins) = 2

\* The second click of a valid connect gesture: a pending start node and
\* a clicked node of the other kind.
ValidGestureStep ==
  LET id == last'.id
      type == last'.type
      start == connectStartNode
      propId == IF type = "property" THEN id ELSE start.id
      pinId == IF type = "pin" THEN id ELSE start.id
  IN (/\ last'.op = "handleNodeClick"
      /\ mode = "connect-line"
      /\ start # NoNode
      /\ start.type # type
      /\ start.id # id)
     => /\ connectStartNode' = NoNode
        /\ mode' = "connect-line"
        /\ IF <<propId, pinId>> \in Pairs(yarnConnections)
           THEN /\ Len(yarnConnections') = Len(yarnConnections) - 1
                /\ yarnConnections' = YarnsOfOtherPairs(yarnConnections, propId, pinId)
           ELSE /\ Len(yarnConnections') = Len(yarnConnections) + 1
                /\ SubSeq(yarnConnections', 1, Len(yarnConnections)) = yarnConnections
                /\ Last(yarnConnections').propertyId = propId
                /\ Last(yarnConnections').pinId = pinId

AtMostOnePerPair ==
  \A i, j \in 1..Len(yarnConnections) :
     (/\ yarnConnections[i].propertyId = yarnConnections[j].propertyId
      /\ yarnConnections[i].pinId = yarnConnections[j].pinId) => i = j

\* C4: the second click of a valid connect gesture (property then pin, or
\* pin then property) appends one connection for the pair when the pair
\* is not connected and removes the pair's connection when it is; the
\* other connections stay, the start node is cleared, the mode stays
\* connect-line; no pair is ever connected twice.
C4_ToggleSemantics == []AtMostOnePerPair /\ [][ValidGestureStep]_vars

\* A pin-then-property gesture added a second connection.
C4_Witness ==
  /\ last.op = "handleNodeClick"
  /\ last.type = "property"
  /\ last.delta = 1
  /\ mode = "connect-line"
  /\ connectStartNode = NoNode
  /\ Len(yarnConnections) = 2

\* The second click of an invalid connect gesture: on the pending start
\* node itself, or on a node of the same kind.
InvalidGestureStep ==
  LET id == last'.id
      type == last'.type
      start == connectStartNode
  IN (/\ last'.op = "handleNodeClick"
      /\ mode = "connect-line"
      /\ start # NoNode
      /\ (start.id = id \/ start.type = type))
     => /\ yarnConnections' = yarnConnections
        /\ ls'[KeyYarns] = ls[KeyYarns]
        /\ connectStartNode' = NoNode
        /\ mode' = "connect-line"
        /\ alertMsg' = IF start.id = id THEN "none" ELSE "connect-kinds"

\* C5: in connect-line mode a click on the pending start node cancels the
\* selection without a notice, a click on another node of the same kind is
\* rejected with a notice; both clear the start node and leave the yarn
\* connections as they were.
C5_InvalidGestures == [][InvalidGestureStep]_vars

\* A pin-pin gesture was rejected while a connection exists.
C5_Witness ==
  /\ last.op = "handleNodeClick"
  /\ last.type = "pin"
  /\ alertMsg = "connect-kinds"
  /\ connectStartNode = NoNode
  /\ yarnConnections # <<>>

Timestamps(list) == {list[i].timestamp : i \in 1..Len(list)}

\* A step of handleUndo.
UndoStep ==
  last'.op = "handleUndo" =>
    IF paths = <<>> /\ stickers = <<>>
    THEN /\ paths' = paths
         /\ stickers' = stickers
         /\ ls' = ls
    ELSE \/ /\ paths # <<>>
            /\ paths' = ButLast(paths)
            /\ stickers' = stickers
            /\ \A t \in Timestamps(paths) : t <= Last(paths).timestamp
            /\ \A t \in Timestamps(stickers) : t < Last(paths).timestamp
         \/ /\ stickers # <<>>
            /\ stickers' = ButLast(stickers)
            /\ paths' = paths
            /\ \A t \in Timestamps(paths) \cup Timestamps(stickers) :
                  t <= Last(stickers).timestamp

\* C6: handleUndo removes exactly one element, the path or sticker with
\* the latest creation timestamp of all (the path only when it is strictly
\* later than every sticker), and leaves the rest as it was; with no path
\* and no sticker it changes nothing.
C6_UndoLatest == [][UndoStep]_vars

\* Undo removed a sticker that was created after the path that stays.
C6_Witness ==
  /\ last.op = "handleUndo"
  /\ last.type = "sticker"
  /\ stickers = <<>>
  /\ paths # <<>>
  /\ Last(paths).timestamp < last.id

\* A step of the mounted board that changes a collection, or a stored text.
MirrorStep ==
  /\ (view' = "map" /\ ~crashed') =>
       /\ paths' # paths => ls'[KeyPaths] = JSONstringify(paths')
       /\ stickers' # stickers => ls'[KeyStickers] = JSONstringify(stickers')
       /\ lifePins' # lifePins => ls'[KeyLifePins] = JSONstringify(lifePins')
       /\ yarnConnections' # yarnConnections =>
            ls'[KeyYarns] = JSONstringify(yarnConnections')
  /\ ls'[KeyPaths] # ls[KeyPaths] => ls'[KeyPaths] = JSONstringify(paths')
  /\ ls'[KeyLifePins] # ls[KeyLifePins] => ls'[KeyLifePins] = JSONstringify(lifePins')
  /\ ls'[KeyYarns] # ls[KeyYarns] => ls'[KeyYarns] = JSONstringify(yarnConnections')
  /\ ls'[KeyStickers] # ls[KeyStickers] =>
       \/ ls'[KeyStickers] = JSONstringify(stickers')
       \/ last'.op = "reader.onloadend"

\* C7: after every step of the mounted board that changes the paths, the
\* stickers, the life pins or the yarn connections, the text stored under
\* the collection's key is the serialization of the whole collection; and
\* a key's text only ever changes to the serialization of its own
\* collection (for the stickers key: or to the list a sticker conversion
\* saves).
C7_PersistenceMirrors == [][MirrorStep]_vars

\* A connection was made: the yarns key and the life pins key hold their
\* collections and the paths key was never written.
C7_Witness ==
  /\ last.op = "handleNodeClick"
  /\ last.delta = 1
  /\ yarnConnections # <<>>
  /\ ls[KeyYarns] = JSONstringify(yarnConnections)
  /\ ls[KeyLifePins] = JSONstringify(lifePins)
  /\ ls[KeyPaths] = Missing

\* The collection a stored text is expected to load as.
Loaded(text) == IF text.tag = "json" THEN text.val ELSE <<>>

BoardLoadedFrom(store) ==
  /\ paths' = Loaded(store[KeyPaths])
  /\ stickers' = Loaded(store[KeyStickers])
  /\ lifePins' = Loaded(store[KeyLifePins])
  /\ yarnConnections' = SelectSeq(Loaded(store[KeyYarns]),
                                  LAMBDA y : y.propertyId \in Ids(properties'))

\* A load of the page, or a mount of the board.
LoadStep ==
  /\ last'.op = "reload" =>
       /\ ~crashed' /\ ~uncaught'
       /\ properties' = Loaded(ls[KeyProperties])
       /\ BoardLoadedFrom(ls)
  /\ (last'.op = "setViewMode" /\ last'.type = "map") =>
       /\ ~crashed' /\ ~uncaught'
       /\ properties' = properties
       /\ BoardLoadedFrom(ls)

QuotaStep ==
  /\ KeyProperties \in rejected' =>
       /\ alertMsg' = "quota"
       /\ ls'[KeyProperties] = ls[KeyProperties]
       /\ uncaught' => rejected' # {KeyProperties}
       /\ last'.op = "confirmAddPin" =>
            /\ Len(properties') = Len(properties) + 1
            /\ Last(properties').id = last'.id
       /\ last'.op \in {"handleConfirmDelete", "MemoDrawer.onDelete",
                        "PropertyDetailView.onDelete"} =>
            /\ Len(properties') = Len(properties) - 1
            /\ last'.id \notin Ids(properties')
  /\ rejected' \cap {KeyPaths, KeyStickers, KeyLifePins, KeyYarns} # {} =>
       uncaught'
  /\ rejected' = {} => ~uncaught'

\* C9: a rejected write of the property list raises the quota alert and
\* no exception, and the property list in memory keeps the change; a
\* rejected write of the paths, stickers, life pins or yarn connections
\* propagates as an exception.
C9_QuotaFailures == [][QuotaStep]_vars

\* A property was added, its write was rejected, the alert was raised
\* and nothing else failed.
C9_Witness ==
  /\ last.op = "confirmAddPin"
  /\ rejected = {KeyProperties}
  /\ alertMsg = "quota"
  /\ ~uncaught
  /\ ~crashed
  /\ properties # <<>>
  /\ ls[KeyProperties] # JSONstringify(properties)

\* A press of one of the four toggling toolbar buttons.
ToolbarToggleStep ==
  (/\ last'.op = "toolbar"
   /\ last'.type \in {"add_pin", "add_life_pin", "connect-line", "eraser"})
  => mode' = IF mode = last'.type THEN "browse" ELSE last'.type

\* C10: pressing the toolbar button of add_pin, add_life_pin, connect-line
\* or eraser sets the mode to browse when the mode is that tool and to the
\* tool otherwise; the mode is always one of the six modes.
C10_ToolbarToggle == [](mode \in Modes) /\ [][ToolbarToggleStep]_vars

\* The connect-line button was pressed while connect-line was active.
C10_Witness ==
  /\ last.op = "toolbar"
  /\ last.type = "connect-line"
  /\ mode = "browse"
  /\ properties # <<>>

StartOnlyInConnectMode == connectStartNode # NoNode => mode = "connect-line"

\* A step that changes the mode to a mode other than connect-line.
LeaveConnectStep ==
  (mode' # mode /\ mode' # "connect-line") => connectStartNode' = NoNode

\* C11: a connection start node is pending only in connect-line mode, and
\* every step that changes the mode to another mode than connect-line
\* (toolbar, click on the empty map, pin-name confirm or cancel, add-pin
\* confirm) leaves no start node pending.
C11_StartOnlyInConnectMode ==
  []StartOnlyInConnectMode /\ [][LeaveConnectStep]_vars

\* The eraser button was pressed in connect-line mode while a start node
\* was pending, and the start node is gone.
C11_Witness ==
  /\ last.op = "toolbar"
  /\ last.type = "eraser"
  /\ mode = "eraser"
  /\ "start" \in last.reset
  /\ connectStartNode = NoNode

PickerOnlyInPencilMode == showColorPicker => mode = "pencil"

\* A step that changes the mode to a mode other than pencil, or the choice
\* of a colour in the picker.
PickerStep ==
  /\ (mode' # mode /\ mode' # "pencil") => ~showColorPicker'
  /\ last'.op = "pickColor" =>
       /\ showColorPicker
       /\ ~showColorPicker'
       /\ mode = "pencil"
       /\ mode' = "pencil"
       /\ pencilColor' \in PENCIL_COLORS

\* C12: the colour picker is open only in pencil mode; every step that
\* changes the mode to another mode than pencil closes it, and choosing a
\* colour closes it and keeps the mode pencil.
C12_PickerOnlyInPencilMode ==
  []PickerOnlyInPencilMode /\ [][PickerStep]_vars

\* A colour other than the initial one was chosen, the picker was opened
\* again, and the eraser button closed it.
C12_Witness ==
  /\ last.op = "toolbar"
  /\ last.type = "eraser"
  /\ "picker" \in last.reset
  /\ mode = "eraser"
  /\ ~showColorPicker
  /\ pencilColor = "#E65555"

\* A click on the empty map in connect-line mode.
EmptyMapClickStep ==
  (last'.op = "handleMapClick" /\ mode = "connect-line") =>
    /\ yarnConnections' = yarnConnections
    /\ ls'[KeyYarns] = ls[KeyYarns]
    /\ connectStartNode' = NoNode
    /\ mode' = IF connectStartNode # NoNode THEN "connect-line" ELSE "browse"

\* C13: in connect-line mode a click on the empty map clears a pending
\* start node and stays in connect-line mode; with no start node pending
\* it switches to browse mode; the yarn connections stay as they were.
C13_EmptyMapClick == [][EmptyMapClickStep]_vars

\* A pending start node was deselected by a click on the empty map while
\* a connection exists; the mode is still connect-line.
C13_Witness ==
  /\ last.op = "handleMapClick"
  /\ "start" \in last.reset
  /\ mode = "connect-line"
  /\ connectStartNode = NoNode
  /\ yarnConnections # <<>>

\* Every path has two or more coordinates and one of the three colours.
PathsWellFormed ==
  \A i \in 1..Len(paths) :
     /\ Len(paths[i].coords) >= 2
     /\ paths[i].color \in PENCIL_COLORS

\* The pointer-up that ends a stroke of the freehand recorder.
StrokeEndStep ==
  /\ last'.op \in {"mouseup", "handlePathFinish"} =>
       /\ mode = "pencil"
       /\ isDrawing
       /\ ~isDrawing'
       /\ IF Len(pointsRef) >= 2
          THEN /\ Len(paths') = Len(paths) + 1
               /\ ButLast(paths') = paths
               /\ Last(paths').coords = pointsRef
               /\ Last(paths').color = pencilColor
               /\ ls'[KeyPaths] = JSONstringify(paths')
          ELSE /\ paths' = paths
               /\ ls'[KeyPaths] = ls[KeyPaths]
  /\ Len(paths') > Len(paths) => last'.op = "handlePathFinish"

\* C14: the pointer-up of a stroke in pencil mode appends a path to the end
\* of the collection if and only if two or more points were captured since
\* pointer-down; the path's coords are the captured points in order and its
\* colour is the selected pencil colour; a shorter stroke leaves the paths
\* as they were; every path of the recorder has two or more coordinates.
C14_FreehandFinalisation == []PathsWellFormed /\ [][StrokeEndStep]_vars

\* A second path was drawn from point 2 to point 1 after the colour was
\* changed.
C14_Witness ==
  /\ last.op = "handlePathFinish"
  /\ ~isDrawing
  /\ Len(paths) = 2
  /\ Last(paths).coords = <<2, 1>>
  /\ Last(paths).color = "#F5A623"
  /\ paths[1].color = "#50B748"

\* A click on a path, the pointer entering or leaving a path, and a click
\* at the place of a path outside eraser mode.
EraserStep ==
  /\ last'.op = "deletePath" =>
       /\ mode = "eraser"
       /\ last'.id \in Ids(paths)
       /\ last'.id \notin Ids(paths')
       /\ Len(paths') = Len(paths) - 1
       /\ \E i \in 1..Len(paths) :
            /\ paths[i].id = last'.id
            /\ paths' = SubSeq(paths, 1, i - 1) \o SubSeq(paths, i + 1, Len(paths))
  /\ last'.op \in {"mouseover", "mouseout"} =>
       /\ UNCHANGED <<properties, paths, stickers, lifePins, yarnConnections, ls>>
  /\ (mode # "eraser" /\ last'.op \in {"handleMapClick", "deletePath"}) =>
       paths' = paths

\* C15: in eraser mode a click on a path removes that path and leaves the
\* other paths in their order; hovering a path changes no collection; a
\* click on a path in another mode removes nothing.
C15_ErasePath == [][EraserStep]_vars

\* The first of two paths was hovered and erased; the second one stays.
C15_Witness ==
  /\ last.op = "deletePath"
  /\ last.id = 1
  /\ hoveredPathId = 1
  /\ Len(paths) = 1
  /\ paths[1].id = 2
  /\ mode = "eraser"

\* C20: every property in the property list has a rating between 1 and 5
\* in every reachable state, also right after confirmAddPin created it.
C20_RatingInRange ==
  \A i \in 1..Len(properties) : properties[i].rating \in 1..5

\* C18: the control point of a connection's curve is the pixel midpoint of
\* the two offset endpoints moved down (positive y) by min(0.15 * d, 80)
\* pixels and not moved in x, d being the pixel distance of the endpoints:
\* 15 pixels for d = 100, 80 pixels for d = 1000.
SagOf(g) == g.controlPx[2] - (PxScale \div 2) * (g.startPx[2] + g.endPx[2])

C18_ConnectorSag ==
  geometry.ran =>
    LET d == DistanceTo(geometry.startPx, geometry.endPx)
    IN /\ 2 * geometry.controlPx[1] = PxScale * (geometry.startPx[1] + geometry.endPx[1])
       /\ 100 * SagOf(geometry) = PxScale * Min(15 * d, 80 * 100)
       /\ (d = 100 => SagOf(geometry) = 15 * PxScale)
       /\ (d = 1000 => SagOf(geometry) = 80 * PxScale)

C18_Witness ==
  /\ geometry.ran
  /\ DistanceTo(geometry.startPx, geometry.endPx) = 1000
  /\ SagOf(geometry) = 80 * PxScale
  /\ geometry.startPx[2] # geometry.endPx[2]

\* C19: the distance label of a connection is in whole metres with the
\* suffix m when the distance is below 1000 metres, and in kilometres with
\* one decimal and the suffix km when it is 1000 metres or more.
C19_DistanceLabel ==
  geometry.ran =>
    IF geometry.d < 1000 * MetreScale
    THEN geometry.distText.suffix = "m" /\ geometry.distText.decimals = 0
    ELSE geometry.distText.suffix = "km" /\ geometry.distText.decimals = 1

\* C16: at most one scrapbook image is selected at any time; a pointer-down
\* on another image, or anywhere outside the selected image, leaves the
\* image selected before unselected.
SelectedImages == {i \in Images : images[i].isSelected}

C16_ExclusiveSelection ==
  /\ Cardinality(SelectedImages) <= 1
  /\ last.op = "handlePointerDown" => SelectedImages \subseteq {last.id}
  /\ last.op = "handleGlobalClick" => SelectedImages = {}

\* C17: a raw rotation d (initial rotation plus pointer angular delta)
\* within 5 degrees of a multiple of 45 degrees gives exactly that multiple,
\* any other d gives d, for negative d as well; and the rotation committed
\* on pointer-up is the rotation previewed for the same pointer position.
SnapTarget(d) ==
  LET r == d % Degrees(45)
  IN IF r < Degrees(5) THEN d - r
     ELSE IF r > Degrees(40) THEN d + (Degrees(45) - r)
     ELSE d

C17_RotationSnapping ==
  \A i \in Images :
    /\ (last.op = "handlePointerUp" /\ last.type = "ROTATE" /\ last.id = i) =>
         /\ images[i].rotation =
              SnapTarget(RawRotation(images[i].startRef, images[i].currentAngle))
         /\ images[i].rotation =
              PreviewRotation(images[i].startRef, images[i].currentAngle)
    /\ (last.op = "handlePointerMove" /\ last.type = "ROTATE" /\ last.id = i) =>
         images[i].transform =
           SnapTarget(RawRotation(images[i].startRef, images[i].currentAngle))

(***************************************************************************)
(* useMediaRecorder: requests, recorders and timers.                       *)
(***************************************************************************)
\* The step in which the device answers request r.
Resolves(r) ==
  /\ recorder.requests[r].status = "pending"
  /\ recorder'.requests[r].status # "pending"

\* C22: when the device hands over the stream of a request that stopRecording
\* or a newer startRecording has invalidated in the meantime, the stream's
\* tracks are stopped, no recorder and no timer are started for the request,
\* its stream is not published as the preview and isRecording is not touched.
C22_CancelledAcquisitionDropped ==
  [][\A r \in Requests :
       (Resolves(r) /\ recorder.activeRequestRef # r /\ last'.op = "getUserMedia.resolve")
         => /\ recorder'.streams[r] = "stopped"
            /\ recorder'.recorders[r] = "none"
            /\ r \notin recorder'.timers
            /\ recorder'.previewStream # r
            /\ recorder'.mediaRecorderRef # r
            /\ recorder'.isRecording = recorder.isRecording]_vars

C22_Witness ==
  \E r \in Requests :
    /\ last.op = "getUserMedia.resolve"
    /\ last.id = r
    /\ recorder.activeRequestRef # r
    /\ recorder.streams[r] = "stopped"
    /\ recorder.requests[r].type = "video"

\* What the hook returns to its owner besides the recording time.
Visible(h) ==
  [error |-> h.error, isRecording |-> h.isRecording, previewStream |-> h.previewStream,
   mediaUrl |-> h.mediaUrl]

\* C27: the answer of the device to a request that stopRecording or a later
\* startRecording has invalidated, a stream or an error, changes nothing of
\* error, isRecording, previewStream and mediaUrl.
C27_InvalidatedStartInvisible ==
  [][\A r \in Requests :
       (Resolves(r) /\ recorder.activeRequestRef # r)
         => Visible(recorder') = Visible(recorder)]_vars

\* C28: at most one recording timer runs, and none while isRecording is
\* false.
C28_TimerDiscipline ==
  /\ Cardinality(recorder.timers) <= 1
  /\ ~recorder.isRecording => recorder.timers = {}

\* The media URL holds the data of the recorder that built it and nothing
\* else.
OwnChunks == recorder.mediaUrl.chunks \in {<<>>, <<recorder.mediaUrl.by>>}

\* The stop task of recorder r stops no stream but the one of r.
ReleasesOwnStream ==
  \A r \in Requests :
    (recorder.recorders[r] = "stopping" /\ recorder'.recorders[r] = "inactive")
      => \A q \in Requests \ {r} : recorder'.streams[q] = recorder.streams[q]

\* C29: the stop task of a recorder releases only the stream of its own
\* recording and builds the media URL from its own chunks only, also when a
\* new startRecording came between stopRecording and the stop task.
C29_RecordingsDoNotInterfere == []OwnChunks /\ [][ReleasesOwnStream]_vars

(***************************************************************************)
(* Recorded stickers.                                                      *)
(***************************************************************************)
\* C25: a recording that the user cancelled with the X button of the
\* recording toast never becomes an audio sticker of the collection.
C25_CancelCreatesNothing ==
  \A i \in 1..Len(stickers) : stickers[i].url \notin recorder.cancelled

\* The step in which the conversion c of a mounted board completes and its
\* save goes through.
Completes(c) ==
  /\ c.live
  /\ c \notin conversions'
  /\ last'.op = "reader.onloadend"
  /\ ~uncaught'

\* C26: when the conversion of a recorded sticker completes, the collection
\* in memory and in storage is the collection of that moment plus the new
\* sticker: what was added, moved, deleted or undone during the conversion
\* stays as it is.
C26_NoLostStickerUpdates ==
  [][\A c \in conversions :
       Completes(c) => /\ stickers' = Append(stickers, c.sticker)
                       /\ ls'[KeyStickers] = JSONstringify(Append(stickers, c.sticker))]_vars

(***************************************************************************)
(* The comparison view.                                                    *)
(***************************************************************************)
\* C21: analyzeProperties never rejects, so handleAnalyze always reaches
\* setLoading(false): the loading flag is set only while the one request
\* of the analysis is awaited.
C21_AnalyzeNeverRejects ==
  /\ ~(last.op = "handleAnalyze" /\ uncaught)
  /\ comparison.loading => comparison.pending /\ comparison.requests = 1

(***************************************************************************)
(* Property markers.                                                       *)
(***************************************************************************)
\* The step is a click event on the marker of property id.
ClickOn(id) ==
  /\ last'.op \in {"marker.click", "handleNodeClick"}
  /\ last'.type = "property"
  /\ last'.id = id

\* The timeout of the marker's last dragend has not run yet.
JustDragged(id) == ~marker[id].dragging /\ marker[id].timers > 0

\* C23: a click on a property marker after its dragend and before the 50 ms
\* of that dragend have passed selects nothing and registers no connect
\* gesture.
C23_PostDragClickSuppressed ==
  [][\A id \in NodeIds :
       (JustDragged(id) /\ ClickOn(id))
         => UNCHANGED <<selectedPropertyId, connectStartNode, yarnConnections>>]_vars

(***************************************************************************)
(* The property list.                                                      *)
(***************************************************************************)
\* The properties of a list, without their order.
PropertySet(props) == {props[k] : k \in 1..Len(props)}

\* C24: whatever category tab is active, onReorder changes only the order
\* of the properties: the same properties with the same content before and
\* after, so no property and none of its connections is lost.
C24_ReorderOnlyReorders ==
  [][last'.op = "onReorder"
       => /\ PropertySet(properties') = PropertySet(properties)
          /\ Len(properties') = Len(properties)]_vars

(***************************************************************************)
(* The freehand recorder and the pointer.                                  *)
(***************************************************************************)
\* The recorder is in the drawing state only while the pointer is down in
\* pencil mode.
DrawingOnlyWhilePressed == isDrawing => pressed /\ mode = "pencil"

\* A pointer-move while the pointer is up adds no point.
MoveWithoutDown ==
  (last'.op = "mousemove" /\ ~pressed) => pointsRef' = pointsRef

\* C30: after the pointer was released, on the map or anywhere else, or the
\* mode has left pencil, the recorder is not drawing, and a pointer-move
\* without a pointer-down before it adds no points.
C30_EveryStrokeEnds == []DrawingOnlyWhilePressed /\ [][MoveWithoutDown]_vars

====
